---------------------------- MODULE Spec2Model ----------------------------
(***************************************************************************)
(* The aggregation-and-filtering engine of the conversion dashboard:       *)
(* DataProcessor -> EnhancedDataProcessor -> UnifiedDataProcessor.         *)
(*                                                                         *)
(* A row of the parsed CSV is a record; its fields stand for the CSV       *)
(* columns the processors read:                                            *)
(*   id 'Conversion ID', convTime 'Conversion Time',                       *)
(*   tag 'Tracking Tag Name', convDevice 'Conversion Device Type',         *)
(*   lastDevice / firstDevice '{Last,First} Impression Device Type',       *)
(*   lastCampaign / firstCampaign '... Campaign Name',                     *)
(*   lastAdGroup / firstAdGroup '... Ad Group Name',                       *)
(*   lastCreative / firstCreative '... Creative Name',                     *)
(*   adFormat 'Last Impression Ad Format',                                 *)
(*   adEnv 'Last Impression Ad Environment', imps 'Impression Count',      *)
(*   clicks 'Display Click Count', value 'Monetary Value',                 *)
(*   country / region / metro 'Last Impression {Country,Region,Metro Name}'*)
(*   attrModel 'Cross Device Attribution Model',                           *)
(*   site 'Last Impression Site',                                          *)
(*   firstTime / lastTime '{First,Last} Impression Time'.                  *)
(*                                                                         *)
(* Instants are whole seconds since the epoch.  Papa.parse with            *)
(* dynamicTyping delivers an empty cell as null.                           *)
(***************************************************************************)
EXTENDS Integers, Sequences, FiniteSets, TLC

VARIABLES
    rawData,        \* this.rawData of the dashboard's UnifiedDataProcessor
    filters,        \* this.filters (the available filter values)
    processedData,  \* this.processedData (the held ViewBag)
    lastOp,         \* the last operation: "new", "load", "loadFailed", "apply",
                    \* "draw", "reset", "change", "baseApply",
                    \* "enhancedApply"
    lastSpec,       \* the argument of the last applyFilters call
    filteredData,   \* tempProcessor.rawData of the last applyFilters call
    returned,       \* what the last operation returned (or resolved with)
    loadedRaw,      \* history: results.data of the last successful parse
    narrowed,       \* history: an earlier applyFilters call dropped a record
    sankey,         \* the last createDevicePathSankey call: the flows and
                    \* nodes it was given, as it leaves them, and the links
                    \* it hands to the layout
    timeCall,       \* the last calculateTimeToConvert call: its arguments
                    \* and what it returned
    pendingFilters, \* this.pendingFilters of the UnifiedFilterManager
    activeFilters,  \* this.activeFilters of the UnifiedFilterManager
    sharedDateRange,\* pendingFilters.dateRange and activeFilters.dateRange
                    \* are one object
    charts          \* the charts of the page: what each group shows

\* the state of the filter panel and of the charts
panel == <<pendingFilters, activeFilters, sharedDateRange, charts>>

vars == <<rawData, filters, processedData, lastOp, lastSpec, filteredData,
          returned, loadedRaw, narrowed, sankey, timeCall, pendingFilters,
          activeFilters, sharedDateRange, charts>>

---------------------------------------------------------------------------
(* JavaScript values *)

\* null (an empty string cell; both are falsy)
Null == ""

\* null in a numeric column
NoNum == 0 - 1

\* timestamp cells that are no instant: null, a column the file does not
\* have (undefined), and a non-empty text that Date cannot parse
NullTime == 0 - 1
UndefTime == 0 - 2
BadTime == 0 - 3

\* the time value of an Invalid Date
NaN == 0 - 9

\* a date bound that is not given ('' of an empty date input, or undefined)
NoBound == 0

SecondsPerDay == 86400

Day(n) == n * SecondsPerDay

\* x || 0
OrZero(x) == IF x = NoNum THEN 0 ELSE x

\* x || 'Unknown'
OrUnknown(x) == IF x = Null THEN "Unknown" ELSE x

\* truthiness of a timestamp cell
TimeTruthy(t) == t # NullTime /\ t # UndefTime

\* new Date(t).getTime(): null converts to 0, the epoch
ToDate(t) ==
    IF t = NullTime THEN 0
    ELSE IF t = UndefTime \/ t = BadTime THEN NaN
    ELSE t

\* a >= b and a <= b of two Dates: false when either is Invalid
DateGE(a, b) == a # NaN /\ b # NaN /\ a >= b
DateLE(a, b) == a # NaN /\ b # NaN /\ a <= b
DateLT(a, b) == a # NaN /\ b # NaN /\ a < b
DateGT(a, b) == a # NaN /\ b # NaN /\ a > b

RECURSIVE GCD(_, _)
GCD(a, b) == IF b = 0 THEN a ELSE GCD(b, a % b)

\* the quotient n / d of two non-negative numbers, d > 0, in lowest terms
Quot(n, d) == LET g == GCD(n, d) IN [num |-> n \div g, den |-> d \div g]

Zero == [num |-> 0, den |-> 1]

Includes(arr, x) == \E i \in DOMAIN arr : arr[i] = x

---------------------------------------------------------------------------
(* The rows the model draws files from *)

MaxRecs == 2

Row1 ==
    [id |-> 1, convTime |-> Day(1) + 3600, tag |-> "Purchase",
     convDevice |-> "Mobile", lastDevice |-> "Mobile", firstDevice |-> "Mobile",
     lastCampaign |-> "C1", firstCampaign |-> "C1",
     lastAdGroup |-> "G1", firstAdGroup |-> "G1",
     lastCreative |-> "K1", firstCreative |-> "K1",
     adFormat |-> "Banner", adEnv |-> "Web",
     imps |-> 10, clicks |-> 1, value |-> 5,
     country |-> "US", region |-> "CA", metro |-> "SF",
     attrModel |-> "M1", site |-> "S1",
     firstTime |-> Day(1), lastTime |-> Day(1) + 3556]

\* first touch and last touch differ in every dual field; converted on a
\* Mobile after a last impression on a Tablet; its Conversion Time is
\* exactly the instant the date bounds below name
Row2 ==
    [id |-> 2, convTime |-> Day(2), tag |-> "Signup",
     convDevice |-> "Mobile", lastDevice |-> "Tablet", firstDevice |-> "Desktop",
     lastCampaign |-> "C2", firstCampaign |-> "C1",
     lastAdGroup |-> "G2", firstAdGroup |-> "G1",
     lastCreative |-> "K2", firstCreative |-> "K1",
     adFormat |-> "Video", adEnv |-> "App",
     imps |-> 0, clicks |-> 0, value |-> 0,
     country |-> "US", region |-> "NY", metro |-> Null,
     attrModel |-> "M2", site |-> "S2",
     firstTime |-> NullTime, lastTime |-> Day(2)]

\* no last-touch campaign, ad group or creative; empty numeric cells
Row3 ==
    [id |-> 3, convTime |-> Day(3), tag |-> "Purchase",
     convDevice |-> "Tablet", lastDevice |-> "Desktop", firstDevice |-> "Tablet",
     lastCampaign |-> Null, firstCampaign |-> "C2",
     lastAdGroup |-> Null, firstAdGroup |-> "G2",
     lastCreative |-> Null, firstCreative |-> "K2",
     adFormat |-> Null, adEnv |-> Null,
     imps |-> NoNum, clicks |-> NoNum, value |-> NoNum,
     country |-> "CA", region |-> Null, metro |-> Null,
     attrModel |-> Null, site |-> Null,
     firstTime |-> Day(1), lastTime |-> Day(3) + 200]

\* an empty Conversion Time cell
Row4 ==
    [id |-> 4, convTime |-> NullTime, tag |-> Null,
     convDevice |-> "Desktop", lastDevice |-> "Desktop", firstDevice |-> "Desktop",
     lastCampaign |-> "C2", firstCampaign |-> "C2",
     lastAdGroup |-> "G2", firstAdGroup |-> "G2",
     lastCreative |-> "K2", firstCreative |-> "K2",
     adFormat |-> "Banner", adEnv |-> "Web",
     imps |-> 3, clicks |-> 0, value |-> 2,
     country |-> "US", region |-> "CA", metro |-> "LA",
     attrModel |-> "M1", site |-> "S1",
     firstTime |-> Day(2), lastTime |-> Day(1)]

\* a Conversion Time that is text Date cannot parse
Row5 ==
    [id |-> 5, convTime |-> BadTime, tag |-> "Purchase",
     convDevice |-> "Tablet", lastDevice |-> "Tablet", firstDevice |-> "Tablet",
     lastCampaign |-> "C1", firstCampaign |-> "C1",
     lastAdGroup |-> "G1", firstAdGroup |-> "G1",
     lastCreative |-> "K1", firstCreative |-> "K1",
     adFormat |-> "Video", adEnv |-> "App",
     imps |-> 60, clicks |-> 2, value |-> 9,
     country |-> "CA", region |-> "ON", metro |-> Null,
     attrModel |-> "M2", site |-> "S2",
     firstTime |-> BadTime, lastTime |-> Day(2)]

\* a row of a file that lacks every column but the id
Row6 ==
    [id |-> 6, convTime |-> UndefTime, tag |-> Null,
     convDevice |-> Null, lastDevice |-> Null, firstDevice |-> Null,
     lastCampaign |-> Null, firstCampaign |-> Null,
     lastAdGroup |-> Null, firstAdGroup |-> Null,
     lastCreative |-> Null, firstCreative |-> Null,
     adFormat |-> Null, adEnv |-> Null,
     imps |-> NoNum, clicks |-> NoNum, value |-> NoNum,
     country |-> Null, region |-> Null, metro |-> Null,
     attrModel |-> Null, site |-> Null,
     firstTime |-> UndefTime, lastTime |-> UndefTime]

Rows == {Row1, Row2, Row3, Row4, Row5, Row6}

\* the record sequences a parse can deliver
Files == UNION {[1..n -> Rows] : n \in 0..MaxRecs}

\* the files a later upload replaces the held set with
OtherFiles == {<<>>, <<Row3>>, <<Row2, Row1>>}

---------------------------------------------------------------------------
(* DataProcessor.extractFilters and EnhancedDataProcessor.extractFilters *)

\* every text of the model's rows, in the order Array.prototype.sort gives
\* strings (by UTF-16 code unit)
SortOrder ==
    <<"App", "Banner", "Box", "C1", "C2", "CA", "Desktop", "G1", "G2", "K1",
      "K2", "LA", "M1", "M2", "Mobile", "NY", "ON", "Purchase", "S1", "S2",
      "SF", "Signup", "Smart", "Smart-TV", "TV-Box", "Tablet", "US", "Video",
      "Web">>

\* Array.from(set).filter(Boolean).sort()
SortedValues(set) == SelectSeq(SortOrder, LAMBDA s : s \in set /\ s # Null)

\* the Set built by the forEach over this.rawData: the truthy values of the
\* given columns
Observed(data, cols) ==
    {data[i][c] : i \in DOMAIN data, c \in cols} \ {Null}

BaseExtractFilters(data) ==
    [conversionTypes |-> SortedValues(Observed(data, {"tag"})),
     campaigns |-> SortedValues(Observed(data, {"lastCampaign", "firstCampaign"})),
     adGroups |-> SortedValues(Observed(data, {"lastAdGroup", "firstAdGroup"})),
     creatives |-> SortedValues(Observed(data, {"lastCreative", "firstCreative"})),
     deviceTypes |-> SortedValues(Observed(data, {"convDevice", "lastDevice"})),
     countries |-> SortedValues(Observed(data, {"country"})),
     regions |-> SortedValues(Observed(data, {"region"})),
     metros |-> SortedValues(Observed(data, {"metro"})),
     adEnvironments |-> SortedValues(Observed(data, {"adEnv"}))]

ExtractFilters(data) ==
    LET base == BaseExtractFilters(data)
    IN  [conversionTypes |-> base.conversionTypes,
         campaigns |-> base.campaigns,
         adGroups |-> base.adGroups,
         creatives |-> base.creatives,
         deviceTypes |-> base.deviceTypes,
         countries |-> base.countries,
         regions |-> base.regions,
         metros |-> base.metros,
         adEnvironments |-> base.adEnvironments,
         attributionModels |-> SortedValues(Observed(data, {"attrModel"})),
         lastImpressionSites |-> SortedValues(Observed(data, {"site"}))]

\* new DataProcessor(): this.filters = {}, an object without a key
NoFilters == [none |-> {}]

---------------------------------------------------------------------------
(* UnifiedDataProcessor.applyFilters: the filtering *)

(* A filter specification is the sequence Object.entries(filters) gives: one *)
(* entry per key, in insertion order.  An entry is                           *)
(*   kind "date"   : key "dateRange", the bounds start and end;              *)
(*   kind "set"    : an array value, vals;                                   *)
(*   kind "scalar" : any other value, vals[1].                               *)

DateEntry(s, e) ==
    [key |-> "dateRange", kind |-> "date", vals |-> <<>>, start |-> s, end |-> e]
SetEntry(k, vs) ==
    [key |-> k, kind |-> "set", vals |-> vs, start |-> NoBound, end |-> NoBound]
ScalarEntry(k, v) ==
    [key |-> k, kind |-> "scalar", vals |-> <<v>>, start |-> NoBound, end |-> NoBound]

\* (mutant) the dual fields match on the last-touch column alone
FilterColumnsLastTouch(key) ==
    CASE key = "conversionType" -> <<"tag">>
      [] key = "campaign" -> <<"lastCampaign">>
      [] key = "adGroup" -> <<"lastAdGroup">>
      [] key = "creative" -> <<"lastCreative">>
      [] key = "deviceType" -> <<"lastDevice">>
      [] key = "country" -> <<"country">>
      [] key = "region" -> <<"region">>
      [] key = "metro" -> <<"metro">>
      [] key = "adEnvironment" -> <<"adEnv">>
      [] key = "attributionModel" -> <<"attrModel">>
      [] key = "lastImpressionSite" -> <<"site">>
      [] OTHER -> <<>>

\* the columns each case of the two switch statements reads
FilterColumns(key) ==
    CASE key = "conversionType" -> <<"tag">>
      [] key = "campaign" -> <<"lastCampaign", "firstCampaign">>
      [] key = "adGroup" -> <<"lastAdGroup", "firstAdGroup">>
      [] key = "creative" -> <<"lastCreative", "firstCreative">>
      [] key = "deviceType" -> <<"convDevice", "lastDevice">>
      [] key = "country" -> <<"country">>
      [] key = "region" -> <<"region">>
      [] key = "metro" -> <<"metro">>
      [] key = "adEnvironment" -> <<"adEnv">>
      [] key = "attributionModel" -> <<"attrModel">>
      [] key = "lastImpressionSite" -> <<"site">>
      [] OTHER -> <<>>

\* (mutant) the bounds are exclusive
DateKeepsExclusive(entry, row) ==
    LET convDate == ToDate(row.convTime)
    IN  IF entry.start # NoBound /\ entry.end # NoBound
        THEN DateGT(convDate, entry.start) /\ DateLT(convDate, entry.end)
        ELSE IF entry.start # NoBound THEN DateGT(convDate, entry.start)
        ELSE IF entry.end # NoBound THEN DateLT(convDate, entry.end)
        ELSE TRUE

\* the callback of the date filter, lines 18-42
DateKeeps(entry, row) ==
    LET convDate == ToDate(row.convTime)
    IN  IF entry.start # NoBound /\ entry.end # NoBound
        THEN DateGE(convDate, entry.start) /\ DateLE(convDate, entry.end)
        ELSE IF entry.start # NoBound THEN DateGE(convDate, entry.start)
        ELSE IF entry.end # NoBound THEN DateLE(convDate, entry.end)
        ELSE TRUE

\* (mutant) the second operand of || is lost: only the first column counts
FieldKeepsFirstColumn(entry, row) ==
    LET cols == FilterColumns(entry.key)
    IN  IF cols = <<>> THEN TRUE
        ELSE IF entry.kind = "set"
        THEN Includes(entry.vals, row[cols[1]])
        ELSE row[cols[1]] = entry.vals[1]

\* the callback of one case of the switch on key, lines 48-166: a key the
\* switch does not name filters nothing
FieldKeeps(entry, row) ==
    LET cols == FilterColumns(entry.key)
    IN  IF cols = <<>> THEN TRUE
        ELSE IF entry.kind = "set"
        THEN \E i \in DOMAIN cols : Includes(entry.vals, row[cols[i]])
        ELSE \E i \in DOMAIN cols : row[cols[i]] = entry.vals[1]

\* (mutant) without a dateRange the rows with no parseable Conversion Time
\* are dropped all the same
DateStageAlways(data, spec) ==
    IF \E i \in DOMAIN spec : spec[i].key = "dateRange"
    THEN LET entry == spec[CHOOSE i \in DOMAIN spec : spec[i].key = "dateRange"]
         IN  SelectSeq(data, LAMBDA row : DateKeeps(entry, row))
    ELSE SelectSeq(data, LAMBDA row : ToDate(row.convTime) # NaN)

\* if (filters.dateRange) { ... }
DateStage(data, spec) ==
    IF \E i \in DOMAIN spec : spec[i].key = "dateRange"
    THEN LET entry == spec[CHOOSE i \in DOMAIN spec : spec[i].key = "dateRange"]
         IN  SelectSeq(data, LAMBDA row : DateKeeps(entry, row))
    ELSE data

\* one turn of Object.entries(filters).forEach
FieldStage(data, entry) ==
    IF entry.key = "dateRange" THEN data
    ELSE SelectSeq(data, LAMBDA row : FieldKeeps(entry, row))

\* (mutant) the loop over the entries stops after the first one
FieldStagesFirstOnly(data, spec, i) ==
    IF i > Len(spec) THEN data ELSE FieldStage(data, spec[i])

RECURSIVE FieldStages(_, _, _)
FieldStages(data, spec, i) ==
    IF i > Len(spec) THEN data
    ELSE FieldStages(FieldStage(data, spec[i]), spec, i + 1)

\* filteredData as lines 15-167 leave it
FilterRows(data, spec) == FieldStages(DateStage(data, spec), spec, 1)

---------------------------------------------------------------------------
(* DataProcessor: the base views *)

\* the number of rows whose key is k
CountBy(data, K(_), k) == Cardinality({i \in DOMAIN data : K(data[i]) = k})

\* sum of (row[col] || 0) over the rows whose key is k
SumBy(data, K(_), k, col) ==
    LET s[i \in 0..Len(data)] ==
            IF i = 0 THEN 0
            ELSE s[i - 1] + (IF K(data[i]) = k THEN OrZero(data[i][col]) ELSE 0)
    IN  s[Len(data)]

\* the first row whose key is k (the row that creates the bucket)
FirstBy(data, K(_), k) ==
    data[CHOOSE i \in DOMAIN data :
            K(data[i]) = k /\ \A j \in 1..(i - 1) : K(data[j]) # k]

\* the keys of the buckets a forEach creates (a falsy key creates none)
KeysBy(data, K(_)) == {K(data[i]) : i \in DOMAIN data} \ {Null}

\* (mutant) the division without its guard: 0 / 0 and n / 0 keep their zero
\* denominator (NaN, Infinity)
ConversionRateUnguarded(conversions, impressions) ==
    IF impressions > 0 THEN Quot(conversions * 100, impressions)
    ELSE [num |-> conversions * 100, den |-> 0]

\* data.impressions > 0 ? (data.conversions / data.impressions) * 100 : 0
ConversionRate(conversions, impressions) ==
    IF impressions > 0 THEN Quot(conversions * 100, impressions) ELSE Zero

\* a bucket map with conversions, impressions, monetaryValue, conversionRate
ValuePerformance(data, K(_)) ==
    [k \in KeysBy(data, K) |->
        LET c == CountBy(data, K, k)
            n == SumBy(data, K, k, "imps")
        IN  [conversions |-> c, impressions |-> n,
             monetaryValue |-> SumBy(data, K, k, "value"),
             conversionRate |-> ConversionRate(c, n)]]

\* a bucket map with conversions, impressions, conversionRate
Performance(data, K(_)) ==
    [k \in KeysBy(data, K) |->
        LET c == CountBy(data, K, k)
            n == SumBy(data, K, k, "imps")
        IN  [conversions |-> c, impressions |-> n,
             conversionRate |-> ConversionRate(c, n)]]

\* a plain count per key
Counts(data, K(_)) == [k \in KeysBy(data, K) |-> CountBy(data, K, k)]

\* a Date variable that holds null
NoDate == 0 - 1

\* the minDate / maxDate loop of prepareSummaryMetrics: an Invalid Date is
\* an object, hence truthy, and compares false with everything
SummaryDateRange(data) ==
    LET conv(i) == IF TimeTruthy(data[i].convTime)
                   THEN ToDate(data[i].convTime) ELSE NoDate
        lo[i \in 0..Len(data)] ==
            IF i = 0 THEN NoDate
            ELSE IF conv(i) # NoDate /\ (lo[i - 1] = NoDate \/ DateLT(conv(i), lo[i - 1]))
                 THEN conv(i) ELSE lo[i - 1]
        hi[i \in 0..Len(data)] ==
            IF i = 0 THEN NoDate
            ELSE IF conv(i) # NoDate /\ (hi[i - 1] = NoDate \/ DateGT(conv(i), hi[i - 1]))
                 THEN conv(i) ELSE hi[i - 1]
    IN  [start |-> lo[Len(data)], end |-> hi[Len(data)]]

PrepareSummaryMetrics(data) ==
    LET totalConversions == Len(data)
        totalImpressions == SumBy(data, LAMBDA r : "all", "all", "imps")
    IN  [totalConversions |-> totalConversions,
         conversionsByType |-> Counts(data, LAMBDA r : r.tag),
         totalImpressions |-> totalImpressions,
         avgImpressions |-> IF totalConversions > 0
                            THEN Quot(totalImpressions, totalConversions) ELSE Zero,
         totalValue |-> SumBy(data, LAMBDA r : "all", "all", "value"),
         dateRange |-> SummaryDateRange(data)]

\* new Date(t).toISOString().split('T')[0]: the UTC calendar day, as the
\* number of the day since the epoch
IsoDay(t) == ToDate(t) \div SecondsPerDay

\* toISOString throws RangeError on an Invalid Date
TimelineThrows(data) ==
    \E i \in DOMAIN data :
        data[i].convTime # NullTime /\ data[i].convTime # UndefTime
        /\ ToDate(data[i].convTime) = NaN

\* (mutant) the comparator of the sort is reversed
RECURSIVE Descending(_)
Descending(S) ==
    IF S = {} THEN <<>>
    ELSE LET m == CHOOSE x \in S : \A y \in S : x >= y
         IN  <<m>> \o Descending(S \ {m})

\* the entries sorted with (a, b) => a - b
RECURSIVE Ascending(_)
Ascending(S) ==
    IF S = {} THEN <<>>
    ELSE LET m == CHOOSE x \in S : \A y \in S : x <= y
         IN  <<m>> \o Ascending(S \ {m})

\* conversionTimeline, then sorted by date: the entries in ascending order
ConversionTimeline(data) ==
    LET dated == {i \in DOMAIN data : TimeTruthy(data[i].convTime)}
        days == Ascending({IsoDay(data[i].convTime) : i \in dated})
    IN  [n \in DOMAIN days |->
            [date |-> days[n],
             conversions |-> Cardinality({i \in dated :
                                IsoDay(data[i].convTime) = days[n]})]]

\* (mutant) the type and the device are read through || 'Unknown' and
\* counted without the test of truthiness
PrepareConversionAnalysisUnknown(data) ==
    [conversionsByType |-> Counts(data, LAMBDA r : OrUnknown(r.tag)),
     conversionsByDevice |-> Counts(data, LAMBDA r : OrUnknown(r.convDevice)),
     conversionTimeline |-> ConversionTimeline(data)]

PrepareConversionAnalysis(data) ==
    [conversionsByType |-> Counts(data, LAMBDA r : r.tag),
     conversionsByDevice |-> Counts(data, LAMBDA r : r.convDevice),
     conversionTimeline |-> ConversionTimeline(data)]

PrepareMediaPerformance(data) ==
    [campaignPerformance |-> ValuePerformance(data, LAMBDA r : r.lastCampaign),
     adGroupPerformance |-> ValuePerformance(data, LAMBDA r : r.lastAdGroup)]

PrepareChannelAnalysis(data) ==
    [devicePerformance |-> Performance(data, LAMBDA r : r.lastDevice),
     environmentPerformance |-> Performance(data, LAMBDA r : r.adEnv)]

PrepareCreativePerformance(data) ==
    [creativePerformance |->
        [k \in KeysBy(data, LAMBDA r : r.lastCreative) |->
            LET c == CountBy(data, LAMBDA r : r.lastCreative, k)
                n == SumBy(data, LAMBDA r : r.lastCreative, k, "imps")
            IN  [conversions |-> c, impressions |-> n,
                 monetaryValue |-> SumBy(data, LAMBDA r : r.lastCreative, k, "value"),
                 format |-> OrUnknown(FirstBy(data, LAMBDA r : r.lastCreative, k).adFormat),
                 conversionRate |-> ConversionRate(c, n)]],
     formatPerformance |-> Performance(data, LAMBDA r : r.adFormat)]

\* `${a}-${b}` when both are truthy
PairKey(a, b) == IF a # Null /\ b # Null THEN a \o "-" \o b ELSE Null

RegionKey(r) == PairKey(r.country, r.region)
MetroKey(r) == PairKey(r.region, r.metro)

PrepareGeoInsights(data) ==
    [countryPerformance |->
        [k \in KeysBy(data, LAMBDA r : r.country) |->
            [conversions |-> CountBy(data, LAMBDA r : r.country, k),
             impressions |-> SumBy(data, LAMBDA r : r.country, k, "imps"),
             monetaryValue |-> SumBy(data, LAMBDA r : r.country, k, "value")]],
     regionPerformance |->
        [k \in KeysBy(data, RegionKey) |->
            [country |-> FirstBy(data, RegionKey, k).country,
             region |-> FirstBy(data, RegionKey, k).region,
             conversions |-> CountBy(data, RegionKey, k),
             impressions |-> SumBy(data, RegionKey, k, "imps")]],
     metroPerformance |->
        [k \in KeysBy(data, MetroKey) |->
            [region |-> FirstBy(data, MetroKey, k).region,
             metro |-> FirstBy(data, MetroKey, k).metro,
             conversions |-> CountBy(data, MetroKey, k),
             impressions |-> SumBy(data, MetroKey, k, "imps")]]]

\* the impression ranges of prepareFrequencyAnalysis
FrequencyRange(r) ==
    LET impressions == OrZero(r.imps)
    IN  IF impressions = 0 THEN "0"
        ELSE IF impressions <= 5 THEN "1-5"
        ELSE IF impressions <= 10 THEN "6-10"
        ELSE IF impressions <= 20 THEN "11-20"
        ELSE IF impressions <= 50 THEN "21-50"
        ELSE "50+"

PrepareFrequencyAnalysis(data) ==
    [impressionDistribution |-> Counts(data, FrequencyRange),
     frequencyConversionRate |->
        [k \in KeysBy(data, FrequencyRange) |->
            LET c == CountBy(data, FrequencyRange, k)
            IN  [conversions |-> c,
                 avgValue |-> IF c > 0
                              THEN Quot(SumBy(data, FrequencyRange, k, "value"), c)
                              ELSE Zero]]]

---------------------------------------------------------------------------
(* EnhancedDataProcessor: time to convert, device paths, sites, table rows *)

\* a time to convert is held in hundredths of a day; calculateTimeToConvert
\* returns null otherwise
NoTime == 0 - 1

\* parseFloat((x / d).toFixed(2)) for whole numbers x and d > 0, in
\* hundredths.  The rows above are chosen so that no quotient falls exactly
\* on half a hundredth, where toFixed follows the binary expansion.
ToFixed2(x, d) == (2 * x * 100 + d) \div (2 * d)

\* (mutant) the difference without Math.abs, a negative one rounding to the
\* hundredth below
CalculateTimeToConvertSigned(firstImpressionTime, lastImpressionTime) ==
    IF ~TimeTruthy(firstImpressionTime) \/ ~TimeTruthy(lastImpressionTime)
    THEN NoTime
    ELSE LET firstDate == ToDate(firstImpressionTime)
             lastDate == ToDate(lastImpressionTime)
         IN  IF firstDate = NaN \/ lastDate = NaN THEN NoTime
             ELSE (2 * (lastDate - firstDate) * 100 + SecondsPerDay)
                      \div (2 * SecondsPerDay)

\* calculateTimeToConvert: |last - first| / (1000 * 60 * 60 * 24), toFixed(2)
CalculateTimeToConvert(firstImpressionTime, lastImpressionTime) ==
    IF ~TimeTruthy(firstImpressionTime) \/ ~TimeTruthy(lastImpressionTime)
    THEN NoTime
    ELSE LET firstDate == ToDate(firstImpressionTime)
             lastDate == ToDate(lastImpressionTime)
         IN  IF firstDate = NaN \/ lastDate = NaN THEN NoTime
             ELSE LET diffTime == IF lastDate >= firstDate
                                  THEN lastDate - firstDate
                                  ELSE firstDate - lastDate
                  IN  ToFixed2(diffTime, SecondsPerDay)

RowTime(r) == CalculateTimeToConvert(r.firstTime, r.lastTime)

\* determineDevicePath; the arrow of the source is written -> here
DetermineDevicePath(firstImpressionDevice, conversionDevice) ==
    IF firstImpressionDevice = Null \/ conversionDevice = Null THEN "Unknown"
    ELSE IF firstImpressionDevice = conversionDevice
    THEN firstImpressionDevice \o " Only"
    ELSE firstImpressionDevice \o " -> " \o conversionDevice

\* the devicePath of a row as prepareDevicePathAnalysis and prepareTableData
\* compute it: both devices pass through || 'Unknown' first
RowPath(r) == DetermineDevicePath(OrUnknown(r.firstDevice), OrUnknown(r.convDevice))

\* (mutant) the test timeToConvert !== null is lost
TimedAll(data) == data

\* the rows with a time to convert
Timed(data) == SelectSeq(data, LAMBDA r : RowTime(r) # NoTime)

\* sum of the times to convert of the rows whose key is k
TimeSumBy(data, K(_), k) ==
    LET s[i \in 0..Len(data)] ==
            IF i = 0 THEN 0
            ELSE s[i - 1] + (IF K(data[i]) = k /\ RowTime(data[i]) # NoTime
                             THEN RowTime(data[i]) ELSE 0)
    IN  s[Len(data)]

\* the distribution bucket of a time to convert
TimeBucket(r) ==
    LET t == RowTime(r)
    IN  IF t <= 100 THEN "0-1"
        ELSE IF t <= 300 THEN "1-3"
        ELSE IF t <= 700 THEN "3-7"
        ELSE IF t <= 1400 THEN "7-14"
        ELSE IF t <= 3000 THEN "14-30"
        ELSE "30+"

TimeBuckets == {"0-1", "1-3", "3-7", "7-14", "14-30", "30+"}

\* Math.round(timeToConvert)
DayRounded(r) == (RowTime(r) + 50) \div 100

\* timeByDevice, timeByAdFormat, timeByChannel
TimeGroups(timed, K(_)) ==
    [k \in KeysBy(timed, K) |->
        LET n == CountBy(timed, K, k)
            total == TimeSumBy(timed, K, k)
        IN  [totalTime |-> total, count |-> n, conversions |-> n,
             avgTime |-> IF n > 0 THEN Quot(total, n) ELSE Zero]]

Least(S) == CHOOSE x \in S : \A y \in S : x <= y
Greatest(S) == CHOOSE x \in S : \A y \in S : x >= y

PrepareTimeToConvertAnalysis(data) ==
    LET timed == Timed(data)
        validTimeCount == Len(timed)
        totalTimeToConvert == TimeSumBy(timed, LAMBDA r : "all", "all")
        times == {RowTime(timed[i]) : i \in DOMAIN timed}
        days == Ascending({DayRounded(timed[i]) : i \in DOMAIN timed})
    IN  [distribution |->
            [b \in TimeBuckets |-> CountBy(timed, TimeBucket, b)],
         byDevice |-> TimeGroups(timed, LAMBDA r : OrUnknown(r.lastDevice)),
         byAdFormat |-> TimeGroups(timed, LAMBDA r : OrUnknown(r.adFormat)),
         byChannel |-> TimeGroups(timed, LAMBDA r : OrUnknown(r.adEnv)),
         timeVsConversionPct |->
            [n \in DOMAIN days |->
                LET c == Cardinality({i \in DOMAIN timed :
                                        DayRounded(timed[i]) = days[n]})
                IN  [day |-> days[n], conversions |-> c,
                     percentage |-> ToFixed2(c * 100, validTimeCount)]],
         stats |->
            [average |-> IF validTimeCount > 0
                         THEN (2 * totalTimeToConvert + validTimeCount)
                                 \div (2 * validTimeCount)
                         ELSE 0,
             min |-> IF times = {} THEN 0 ELSE Least(times),
             max |-> IF times = {} THEN 0 ELSE Greatest(times \cup {0}),
             totalConversions |-> validTimeCount]]

\* the key under which prepareDevicePathAnalysis aggregates a flow
FlowKey(r) == OrUnknown(r.firstDevice) \o "-" \o OrUnknown(r.convDevice)

\* seq with x appended unless it is there (a Set or an object keeps the
\* order of first insertion)
AddNew(seq, x) == IF Includes(seq, x) THEN seq ELSE Append(seq, x)

\* deviceNodes: source then target of each flow, in row order
DeviceNodes(data) ==
    LET s[i \in 0..Len(data)] ==
            IF i = 0 THEN <<>>
            ELSE AddNew(AddNew(s[i - 1], OrUnknown(data[i].firstDevice)),
                        OrUnknown(data[i].convDevice))
    IN  s[Len(data)]

\* Object.values(aggregatedFlows): one flow per key, in the order the keys
\* first occur, holding the source and target of the row that created it
AggregatedFlows(data) ==
    LET keys[i \in 0..Len(data)] ==
            IF i = 0 THEN <<>> ELSE AddNew(keys[i - 1], FlowKey(data[i]))
        order == keys[Len(data)]
    IN  [n \in DOMAIN order |->
            [source |-> OrUnknown(FirstBy(data, FlowKey, order[n]).firstDevice),
             target |-> OrUnknown(FirstBy(data, FlowKey, order[n]).convDevice),
             value |-> CountBy(data, FlowKey, order[n])]]

PrepareDevicePathAnalysis(data) ==
    LET timed == Timed(data)
        names == DeviceNodes(data)
    IN  [paths |-> Counts(data, RowPath),
         flows |-> AggregatedFlows(data),
         nodes |-> [n \in DOMAIN names |-> [name |-> names[n]]],
         timeToConvert |->
            [k \in KeysBy(timed, RowPath) |->
                LET n == CountBy(timed, RowPath, k)
                    total == TimeSumBy(timed, RowPath, k)
                IN  [totalTime |-> total, count |-> n,
                     avgTime |-> IF n > 0 THEN Quot(total, n) ELSE Zero]]]

PrepareSitePerformanceAnalysis(data) ==
    [lastImpressionSites |-> ValuePerformance(data, LAMBDA r : r.site)]

\* EnhancedDataProcessor.prepareTableData, which overrides the base one
PrepareTableData(data) ==
    [i \in DOMAIN data |->
        [conversionId |-> data[i].id,
         conversionTime |-> data[i].convTime,
         conversionType |-> data[i].tag,
         deviceType |-> data[i].convDevice,
         campaign |-> data[i].lastCampaign,
         adGroup |-> data[i].lastAdGroup,
         creative |-> data[i].lastCreative,
         impressions |-> data[i].imps,
         clicks |-> data[i].clicks,
         monetaryValue |-> data[i].value,
         country |-> data[i].country,
         region |-> data[i].region,
         metro |-> data[i].metro,
         timeToConvert |-> RowTime(data[i]),
         devicePath |-> RowPath(data[i]),
         attributionModel |-> data[i].attrModel,
         lastImpressionSite |-> data[i].site]]

---------------------------------------------------------------------------
(* The ViewBag *)

\* new DataProcessor(): this.processedData = {}
EmptyBag == [views |-> {}]

\* an operation that ended in an exception returned nothing
Thrown == [views |-> {"thrown"}]

\* prepareDatasets() then prepareEnhancedDatasets() on a processor whose
\* rawData is data: the processedData they leave
PrepareAll(data) ==
    [views |-> {"base", "enhanced"},
     summary |-> PrepareSummaryMetrics(data),
     conversionAnalysis |-> PrepareConversionAnalysis(data),
     mediaPerformance |-> PrepareMediaPerformance(data),
     channelAnalysis |-> PrepareChannelAnalysis(data),
     creativePerformance |-> PrepareCreativePerformance(data),
     geoInsights |-> PrepareGeoInsights(data),
     frequencyAnalysis |-> PrepareFrequencyAnalysis(data),
     tableData |-> PrepareTableData(data),
     timeToConvert |-> PrepareTimeToConvertAnalysis(data),
     devicePathAnalysis |-> PrepareDevicePathAnalysis(data),
     sitePerformance |-> PrepareSitePerformanceAnalysis(data)]

\* prepareDatasets throws out of prepareConversionAnalysis when a row has a
\* Conversion Time that Date cannot parse
Throws(data) == TimelineThrows(data)

\* PrepareAll of every record sequence a processor of the model can hold
\* (a filtered sequence is a subsequence of a file), evaluated once
RECURSIVE Tabulate(_)
Tabulate(S) ==
    IF S = {} THEN <<>>
    ELSE LET data == CHOOSE x \in S : TRUE
         IN  (data :> PrepareAll(data)) @@ Tabulate(S \ {data})

\* Files, split by length and first row
FileGroups ==
    {{data \in Files : Len(data) = n /\ (n = 0 \/ data[1] = row)} :
        n \in 0..MaxRecs, row \in Rows}

RECURSIVE TabulateGroups(_)
TabulateGroups(G) ==
    IF G = {} THEN <<>>
    ELSE LET S == CHOOSE x \in G : TRUE
         IN  Tabulate(S) @@ TabulateGroups(G \ {S})

Datasets == TabulateGroups(FileGroups)

\* this.processedData of a processor whose rawData is data, after
\* prepareDatasets() and prepareEnhancedDatasets() returned
Prepared(data) == Datasets[data]

---------------------------------------------------------------------------
(* UnifiedDataProcessor.applyFilters and processFile *)

\* (mutant) the filtered rows replace this.rawData
UnifiedApplyFiltersNarrowing(raw, spec) ==
    LET filtered == FilterRows(raw, spec)
    IN  [rawData |-> filtered,
         filteredData |-> filtered,
         result |-> IF Throws(filtered) THEN Thrown ELSE Prepared(filtered)]

\* (mutant) tempProcessor is given this.rawData, not the filtered rows
UnifiedApplyFiltersUnfiltered(raw, spec) ==
    LET filtered == FilterRows(raw, spec)
    IN  [rawData |-> raw,
         filteredData |-> filtered,
         result |-> IF Throws(raw) THEN Thrown ELSE Prepared(raw)]

\* applyFilters(filters) on a processor holding raw: the rawData it leaves
\* in this, the rawData it gives tempProcessor, and what it returns
\* (tempProcessor.processedData after extractFilters, prepareDatasets and
\* prepareEnhancedDatasets)
UnifiedApplyFilters(raw, spec) ==
    LET filtered == FilterRows(raw, spec)
    IN  [rawData |-> raw,
         filteredData |-> filtered,
         result |-> IF Throws(filtered) THEN Thrown ELSE Prepared(filtered)]

\* (mutant) the complete callback resolves with the new bag but leaves the
\* old one in this.processedData
ProcessFileCompleteStale(data, held) ==
    [rawData |-> data,
     filters |-> ExtractFilters(data),
     processedData |-> held,
     result |-> IF Throws(data) THEN Thrown ELSE Prepared(data)]

\* the complete callback of processFile with no parse errors, on a processor
\* holding the bag held: an exception out of prepareDatasets leaves
\* this.processedData as it was and the promise unsettled
ProcessFileComplete(data, held) ==
    [rawData |-> data,
     filters |-> ExtractFilters(data),
     processedData |-> IF Throws(data) THEN held ELSE Prepared(data),
     result |-> IF Throws(data) THEN Thrown ELSE Prepared(data)]

\* reject(results.errors) or reject(error)
Rejected == [views |-> {"rejected"}]

\* the key of this.filters that lists the values of a filter key
FilterList(key) ==
    CASE key = "conversionType" -> "conversionTypes"
      [] key = "campaign" -> "campaigns"
      [] key = "adGroup" -> "adGroups"
      [] key = "creative" -> "creatives"
      [] key = "deviceType" -> "deviceTypes"
      [] key = "country" -> "countries"
      [] key = "region" -> "regions"
      [] key = "metro" -> "metros"
      [] key = "adEnvironment" -> "adEnvironments"
      [] key = "attributionModel" -> "attributionModels"
      [] key = "lastImpressionSite" -> "lastImpressionSites"

---------------------------------------------------------------------------
(* The filter specifications the model calls applyFilters with *)

DateSpecs ==
    {<<DateEntry(Day(2), Day(3))>>, <<DateEntry(Day(2), NoBound)>>,
     <<DateEntry(NoBound, Day(2))>>, <<DateEntry(NoBound, NoBound)>>}

SetSpecs ==
    {<<SetEntry("deviceType", <<"Mobile", "Desktop">>)>>,
     <<SetEntry("campaign", <<"C1">>)>>,
     <<SetEntry("campaign", <<"C2", "C1">>)>>,
     <<SetEntry("conversionType", <<"Purchase">>)>>,
     <<SetEntry("adGroup", <<"G1">>)>>,
     <<SetEntry("creative", <<"K1">>)>>,
     <<SetEntry("country", <<"US">>)>>,
     <<SetEntry("region", <<"CA", "NY">>)>>,
     <<SetEntry("metro", <<"SF">>)>>,
     <<SetEntry("adEnvironment", <<"Web">>)>>,
     <<SetEntry("attributionModel", <<"M1">>)>>,
     <<SetEntry("lastImpressionSite", <<"S2">>)>>,
     <<SetEntry("adFormat", <<"Video">>)>>}

ScalarSpecs ==
    {<<ScalarEntry("deviceType", "Mobile")>>,
     <<ScalarEntry("campaign", "C1")>>,
     <<ScalarEntry("adGroup", "G2")>>,
     <<ScalarEntry("creative", "K2")>>,
     <<ScalarEntry("conversionType", "Signup")>>,
     <<ScalarEntry("attributionModel", "M2")>>}

\* a field set to the full list getFilters() reports for it (Select All); a
\* field with no option selected is deleted from the specification
AllValuesSpecs(available) ==
    {<<SetEntry(k, available[FilterList(k)])>> :
        k \in {f \in {"campaign", "adGroup", "creative", "deviceType", "country",
                      "lastImpressionSite"} : available[FilterList(f)] # <<>>}}

\* several constrained fields, in both orders, with and without a window
ManySpecs ==
    {<<SetEntry("campaign", <<"C1">>), SetEntry("deviceType", <<"Mobile", "Desktop">>)>>,
     <<SetEntry("deviceType", <<"Mobile", "Desktop">>), SetEntry("campaign", <<"C1">>)>>,
     <<ScalarEntry("country", "US"), DateEntry(Day(2), NoBound),
       SetEntry("conversionType", <<"Purchase", "Signup">>)>>,
     <<SetEntry("conversionType", <<"Purchase", "Signup">>),
       ScalarEntry("country", "US"), DateEntry(Day(2), NoBound)>>,
     <<SetEntry("creative", <<"K2">>), ScalarEntry("adGroup", "G1")>>,
     <<DateEntry(NoBound, Day(2)), SetEntry("lastImpressionSite", <<"S1", "S2">>)>>}

Specs(available) ==
    {<<>>} \cup DateSpecs \cup SetSpecs \cup ScalarSpecs
        \cup AllValuesSpecs(available) \cup ManySpecs

---------------------------------------------------------------------------
(* The state machine *)

\* new DevicePathVisualizer(): nothing drawn
NoSankey == [flows |-> <<>>, nodes |-> <<>>, links |-> <<>>, drawn |-> FALSE]

\* no call of calculateTimeToConvert yet
NoCall == [first |-> NullTime, last |-> NullTime, result |-> NoTime, done |-> FALSE]

\* a chart group that was never created
NoChart == [state |-> "none", data |-> <<>>]

\* the chart groups of the page before an upload
NoCharts ==
    [base |-> NoChart, timeToConvert |-> NoChart, devicePath |-> NoChart,
     sitePerformance |-> NoChart]

Init ==
    /\ rawData = <<>>
    /\ filters = NoFilters
    /\ processedData = EmptyBag
    /\ lastOp = "new"
    /\ lastSpec = <<>>
    /\ filteredData = <<>>
    /\ returned = EmptyBag
    /\ loadedRaw = <<>>
    /\ narrowed = FALSE
    /\ sankey = NoSankey
    /\ timeCall = NoCall
    /\ pendingFilters = <<>>
    /\ activeFilters = <<>>
    /\ sharedDateRange = FALSE
    /\ charts = NoCharts

\* processFile(file), the parse delivering data without errors.  The first
\* upload draws from Files, a later one from OtherFiles.
ProcessFile(data) ==
    LET done == ProcessFileComplete(data, processedData)
    IN  /\ rawData' = done.rawData
        /\ filters' = done.filters
        /\ processedData' = done.processedData
        /\ returned' = done.result
        /\ lastOp' = "load"
        /\ loadedRaw' = data
        /\ lastSpec' = <<>>
        /\ filteredData' = <<>>
        /\ narrowed' = FALSE
        /\ UNCHANGED <<sankey, timeCall, panel>>

\* processFile(file), the parse reporting errors or failing
ProcessFileRejected ==
    /\ returned' = Rejected
    /\ lastOp' = "loadFailed"
    /\ UNCHANGED <<rawData, filters, processedData, lastSpec, filteredData,
                   loadedRaw, narrowed, sankey, timeCall, panel>>

\* (mutant) the extractFilters of the filtered rows writes this.filters
ApplyFiltersReextracting(spec) ==
    LET done == UnifiedApplyFilters(rawData, spec)
    IN  /\ filters # NoFilters
        /\ rawData' = done.rawData
        /\ filteredData' = done.filteredData
        /\ returned' = done.result
        /\ lastOp' = "apply"
        /\ lastSpec' = spec
        /\ narrowed' = (lastOp = "apply" /\ Len(filteredData) < Len(rawData))
        /\ filters' = ExtractFilters(done.filteredData)
        /\ UNCHANGED <<processedData, loadedRaw, sankey, timeCall, panel>>

\* dataProcessor.applyFilters(spec), once a parse has completed (the filter
\* panel is built from getFilters() after the first load)
ApplyFilters(spec) ==
    LET done == UnifiedApplyFilters(rawData, spec)
    IN  /\ filters # NoFilters
        /\ rawData' = done.rawData
        /\ filteredData' = done.filteredData
        /\ returned' = done.result
        /\ lastOp' = "apply"
        /\ lastSpec' = spec
        /\ narrowed' = (lastOp = "apply" /\ Len(filteredData) < Len(rawData))
        /\ UNCHANGED <<filters, processedData, loadedRaw, sankey, timeCall, panel>>

Next ==
    \/ \E data \in Files : lastOp = "new" /\ ProcessFile(data)
    \/ \E data \in OtherFiles : lastOp # "new" /\ ProcessFile(data)
    \/ ProcessFileRejected
    \/ \E spec \in (IF filters = NoFilters THEN {} ELSE Specs(filters)) :
            ApplyFilters(spec)

Spec == Init /\ [][Next]_vars

---------------------------------------------------------------------------
(* Properties *)

Applied == lastOp = "apply"

\* a row satisfies an entry, a specification
EntryHolds(entry, row) ==
    IF entry.kind = "date" THEN DateKeeps(entry, row) ELSE FieldKeeps(entry, row)

Satisfies(row, spec) == \A i \in DOMAIN spec : EntryHolds(spec[i], row)

\* what a load of data on a fresh processor returns
LoadOf(data) == ProcessFileComplete(data, EmptyBag).result

IsViewBag(bag) == bag.views = {"base", "enhanced"}

\* C1: applyFilters(S) returns exactly what a load of the subsequence of the
\* held rows that satisfy S, in their original order, returns: every view is
\* computed from that subsequence only.
C1_FilteredBagIsLoadOfSubsequence ==
    Applied =>
        returned = LoadOf(SelectSeq(rawData, LAMBDA r : Satisfies(r, lastSpec)))

\* a call that kept some rows and dropped others and returned a ViewBag
C1_Witness ==
    /\ Applied
    /\ Len(filteredData) > 0
    /\ Len(filteredData) < Len(rawData)
    /\ IsViewBag(returned)
    /\ returned.summary.totalConversions = Len(filteredData)

\* C2: after any sequence of applyFilters calls the held raw rows are the
\* sequence the last successful parse delivered.
C2_RawDataUntouched == Applied => rawData = loadedRaw

\* a narrowing call that follows a narrowing call
C2_Witness ==
    /\ Applied
    /\ narrowed
    /\ Len(filteredData) < Len(rawData)
    /\ rawData = loadedRaw

\* C3: filters are not cumulative: what applyFilters(S2) returns after
\* earlier calls is what it returns on the rows as they were loaded.
C3_NotCumulative ==
    Applied => returned = UnifiedApplyFilters(loadedRaw, lastSpec).result

\* a call that keeps a row although the call before it had dropped rows
C3_Witness ==
    /\ Applied
    /\ narrowed
    /\ lastSpec # <<>>
    /\ filteredData = loadedRaw
    /\ loadedRaw # <<>>
    /\ IsViewBag(returned)

\* a specification with no field key and no date bound
EmptySpecs == {<<>>, <<DateEntry(NoBound, NoBound)>>}

\* C4: applyFilters with an empty specification returns a ViewBag equal to
\* the one the load of the held rows produced (and throws where the load
\* threw).
C4_EmptySpecReproducesLoad ==
    (Applied /\ lastSpec \in EmptySpecs) =>
        IF Throws(rawData) THEN returned = Thrown ELSE returned = processedData

\* an empty specification applied, after a narrowing call, to two or more rows
C4_Witness ==
    /\ Applied
    /\ lastSpec \in EmptySpecs
    /\ narrowed
    /\ Len(rawData) >= 2
    /\ IsViewBag(returned)
    /\ returned = processedData

\* C5: a field set to the full list getFilters() reports for it, and
\* nothing else, returns what applyFilters with no constraint returns, also
\* when some held rows have no value for the field.
C5_FullListIsNoConstraint ==
    (Applied /\ lastSpec \in AllValuesSpecs(filters)) =>
        returned = UnifiedApplyFilters(rawData, <<>>).result

\* the fields with a first-touch and a last-touch column
DualKeys == {"campaign", "adGroup", "creative", "deviceType"}

\* the call applied one entry on a dual field
SingleDual == Applied /\ Len(lastSpec) = 1 /\ lastSpec[1].key \in DualKeys

\* the first-touch and the last-touch column of a dual field
TouchColumns(key) ==
    CASE key = "campaign" -> {"firstCampaign", "lastCampaign"}
      [] key = "adGroup" -> {"firstAdGroup", "lastAdGroup"}
      [] key = "creative" -> {"firstCreative", "lastCreative"}
      [] key = "deviceType" -> {"firstDevice", "lastDevice"}

\* the same, with the conversion device in place of the first-touch device
ReadColumns(key) ==
    IF key = "deviceType" THEN {"convDevice", "lastDevice"} ELSE TouchColumns(key)

\* the value of one of the columns equals the scalar, is a member of the set
Matches(entry, row, cols) ==
    \E c \in cols :
        IF entry.kind = "set" THEN \E i \in DOMAIN entry.vals : entry.vals[i] = row[c]
        ELSE row[c] = entry.vals[1]

\* C6 as stated: for campaign, ad group, creative and device type, in scalar
\* and in set mode, a row passes iff its first-touch or its last-touch value
\* equals the value or is a member of the set.
C6_FirstOrLastTouch ==
    SingleDual =>
        filteredData =
            SelectSeq(rawData,
                      LAMBDA r : Matches(lastSpec[1], r, TouchColumns(lastSpec[1].key)))

\* C6 amended: for campaign, ad group and creative a row passes iff its
\* first-touch or its last-touch value matches; for device type a row passes
\* iff its conversion device or its last-touch device matches.
C6_ConversionOrLastTouchDevice ==
    SingleDual =>
        filteredData =
            SelectSeq(rawData,
                      LAMBDA r : Matches(lastSpec[1], r, ReadColumns(lastSpec[1].key)))

\* a device type filter kept a row that matches on its conversion device
\* and on neither touch, and dropped another row
C6_Witness ==
    /\ SingleDual
    /\ lastSpec[1].key = "deviceType"
    /\ Len(filteredData) < Len(rawData)
    /\ \E i \in DOMAIN filteredData :
          ~Matches(lastSpec[1], filteredData[i], TouchColumns("deviceType"))

DeviceSpec == <<SetEntry("deviceType", <<"Mobile", "Desktop">>)>>

\* deviceType = [Mobile, Desktop] was applied to rows whose last-touch
\* devices are among Mobile, Desktop and Tablet
DeviceCase ==
    /\ Applied
    /\ lastSpec = DeviceSpec
    /\ \A i \in DOMAIN rawData : rawData[i].lastDevice \in {"Mobile", "Desktop", "Tablet"}
    /\ IsViewBag(returned)

\* Tablet is a key or an endpoint of a bucket of the bag
TabletInBag(bag) ==
    \/ "Tablet" \in DOMAIN bag.conversionAnalysis.conversionsByDevice
    \/ "Tablet" \in DOMAIN bag.channelAnalysis.devicePerformance
    \/ "Tablet" \in DOMAIN bag.timeToConvert.byDevice
    \/ \E n \in DOMAIN bag.devicePathAnalysis.nodes :
            bag.devicePathAnalysis.nodes[n].name = "Tablet"
    \/ \E n \in DOMAIN bag.devicePathAnalysis.flows :
            \/ bag.devicePathAnalysis.flows[n].source = "Tablet"
            \/ bag.devicePathAnalysis.flows[n].target = "Tablet"

\* C7 as stated: the total conversion count is the number of rows whose
\* last-touch device is Mobile or Desktop, and Tablet is in no bucket.
C7_LastTouchCountNoTablet ==
    DeviceCase =>
        /\ returned.summary.totalConversions =
              Cardinality({i \in DOMAIN rawData :
                              rawData[i].lastDevice \in {"Mobile", "Desktop"}})
        /\ ~TabletInBag(returned)

\* the rows whose conversion device or last-touch device is Mobile or Desktop
MobileOrDesktop(data) ==
    {i \in DOMAIN data :
        \/ data[i].convDevice \in {"Mobile", "Desktop"}
        \/ data[i].lastDevice \in {"Mobile", "Desktop"}}

\* C7 amended: the total conversion count is the number of rows whose
\* conversion device or last-touch device is Mobile or Desktop, and Tablet
\* is in a bucket exactly when one of these rows has Tablet as its
\* conversion, last-touch or first-touch device.
C7_ConversionOrLastTouchCount ==
    DeviceCase =>
        /\ returned.summary.totalConversions = Cardinality(MobileOrDesktop(rawData))
        /\ TabletInBag(returned) <=>
              \E i \in MobileOrDesktop(rawData) :
                  \/ rawData[i].convDevice = "Tablet"
                  \/ rawData[i].lastDevice = "Tablet"
                  \/ rawData[i].firstDevice = "Tablet"

\* the filter kept a row whose last touch was a Tablet and dropped another
C7_Witness ==
    /\ DeviceCase
    /\ Len(filteredData) < Len(rawData)
    /\ \E i \in DOMAIN filteredData : filteredData[i].lastDevice = "Tablet"
    /\ TabletInBag(returned)

\* the Conversion Time cell holds an instant
HasInstant(row) == row.convTime >= 0

\* start <= t <= end, a bound that is not given leaving its side open
InWindow(entry, t) ==
    /\ entry.start # NoBound => entry.start <= t
    /\ entry.end # NoBound => t <= entry.end

\* the call applied a date window and nothing else
DateOnly == Applied /\ Len(lastSpec) = 1 /\ lastSpec[1].kind = "date"

\* C8: of the rows with a conversion instant, the window keeps exactly those
\* with start <= instant <= end (one side open when its bound is not given,
\* a row on a bound kept); with neither bound every row is kept.
C8_InclusiveWindow ==
    DateOnly =>
        /\ SelectSeq(filteredData, HasInstant) =
              SelectSeq(rawData,
                        LAMBDA r : HasInstant(r) /\ InWindow(lastSpec[1], r.convTime))
        /\ (lastSpec[1].start = NoBound /\ lastSpec[1].end = NoBound) =>
              filteredData = rawData

\* a window kept a row whose instant is one of its bounds and dropped a row
\* whose instant lies outside
C8_Witness ==
    /\ DateOnly
    /\ \E i \in DOMAIN filteredData :
          filteredData[i].convTime \in {lastSpec[1].start, lastSpec[1].end}
    /\ \E i \in DOMAIN rawData :
          HasInstant(rawData[i]) /\ ~InWindow(lastSpec[1], rawData[i].convTime)
    /\ Len(SelectSeq(filteredData, HasInstant)) <
          Len(SelectSeq(rawData, HasInstant))

\* C9: with a start bound, an end bound or both, no row whose Conversion
\* Time is not an instant (an empty cell included) is kept, and applyFilters
\* returns a ViewBag.
C9_UnparseableExcluded ==
    (/\ Applied
     /\ \E i \in DOMAIN lastSpec :
           /\ lastSpec[i].kind = "date"
           /\ lastSpec[i].start # NoBound \/ lastSpec[i].end # NoBound) =>
        /\ \A j \in DOMAIN filteredData : HasInstant(filteredData[j])
        /\ IsViewBag(returned)

\* the rows that pass entry on its own
PassAlone(data, entry) ==
    {i \in DOMAIN data : FilterRows(<<data[i]>>, <<entry>>) = <<data[i]>>}

\* the entries of spec in every order
Reorderings(spec) ==
    {[i \in DOMAIN spec |-> spec[p[i]]] : p \in Permutations(DOMAIN spec)}

\* C10: the rows a specification keeps are those that pass each of its
\* entries on its own (every row when it has none), whatever the order of
\* the entries.
C10_Intersection ==
    Applied =>
        /\ filteredData =
              SelectSeq(rawData,
                        LAMBDA r : \A i \in DOMAIN lastSpec :
                                      FilterRows(<<r>>, <<lastSpec[i]>>) = <<r>>)
        /\ \A other \in Reorderings(lastSpec) :
              FilterRows(rawData, other) = filteredData

\* two entries that each drop a row the other keeps
C10_Witness ==
    /\ Applied
    /\ Len(lastSpec) >= 2
    /\ \E i, j \in DOMAIN lastSpec :
          /\ PassAlone(rawData, lastSpec[i]) \ PassAlone(rawData, lastSpec[j]) # {}
          /\ PassAlone(rawData, lastSpec[j]) \ PassAlone(rawData, lastSpec[i]) # {}
    /\ filteredData = <<>>
    /\ rawData # <<>>

\* an aggregation ran last: a load whose parse completed, or applyFilters
Aggregated == lastOp \in {"load", "apply"}

\* C11: aggregation never raises: whatever the rows hold (a Conversion Time
\* that cannot be parsed, no rows at all), a complete ViewBag is returned.
C11_AggregationNeverRaises == Aggregated => IsViewBag(returned)

\* C12: a load the parser fails leaves the held rows, the available filter
\* values and the held ViewBag as they were; a load that resolves replaces
\* the held rows by the parsed records and returns (and holds) the
\* aggregation of all of them.
C12_FailedLoadKeepsSuccessfulLoadReplaces ==
    [][/\ lastOp' = "loadFailed" =>
            /\ returned' = Rejected
            /\ rawData' = rawData
            /\ filters' = filters
            /\ processedData' = processedData
       /\ (lastOp' = "load" /\ IsViewBag(returned')) =>
            /\ rawData' = loadedRaw'
            /\ filters' = ExtractFilters(loadedRaw')
            /\ returned' = PrepareAll(loadedRaw')
            /\ processedData' = returned']_vars

\* a failed load on a processor that holds rows and their ViewBag
C12_Witness ==
    /\ lastOp = "loadFailed"
    /\ returned = Rejected
    /\ Len(rawData) >= 2
    /\ rawData = loadedRaw
    /\ IsViewBag(processedData)
    /\ processedData = PrepareAll(rawData)

---------------------------------------------------------------------------
(* DevicePathVisualizer.createDevicePathSankey *)

\* adjacency[src]: the targets of the accepted flows that leave src, in the
\* order they were pushed (undefined, here the empty list, when there is none)
Adjacent(accepted, src) ==
    LET from == SelectSeq(accepted, LAMBDA f : f.source = src)
    IN  [i \in DOMAIN from |-> from[i].target]

\* (mutant) only a flow from a node to itself is taken to close a cycle
CreatesCycleSelfOnly(accepted, src, tgt, visited) ==
    [hit |-> src = tgt, visited |-> visited]

RECURSIVE CreatesCycle(_, _, _, _)
RECURSIVE SomeCreatesCycle(_, _, _, _, _)

\* createsCycle(src, tgt, visited): the answer, and visited as the call
\* leaves it
CreatesCycle(accepted, src, tgt, visited) ==
    IF src = tgt THEN [hit |-> TRUE, visited |-> visited]
    ELSE IF Adjacent(accepted, src) = <<>> THEN [hit |-> FALSE, visited |-> visited]
    ELSE IF src \in visited THEN [hit |-> FALSE, visited |-> visited]
    ELSE SomeCreatesCycle(accepted, Adjacent(accepted, src), 1, tgt,
                          visited \cup {src})

\* adjacency[src].some(next => createsCycle(next, tgt, visited)), from the
\* i-th element on
SomeCreatesCycle(accepted, nexts, i, tgt, visited) ==
    IF i > Len(nexts) THEN [hit |-> FALSE, visited |-> visited]
    ELSE LET r == CreatesCycle(accepted, nexts[i], tgt, visited)
         IN  IF r.hit THEN r
             ELSE SomeCreatesCycle(accepted, nexts, i + 1, tgt, r.visited)

\* (mutant) the adjacency lists take in every flow seen, the rejected ones
\* too
FilteredFlowsAgainstAll(flows) ==
    LET acc[i \in 0..Len(flows)] ==
            IF i = 0 THEN <<>>
            ELSE IF CreatesCycle(SubSeq(flows, 1, i - 1), flows[i].target,
                                 flows[i].source, {}).hit
                 THEN acc[i - 1]
                 ELSE Append(acc[i - 1],
                             [source |-> flows[i].source,
                              target |-> flows[i].target,
                              value |-> flows[i].value])
    IN  acc[Len(flows)]

\* filteredFlows after flows.forEach
FilteredFlows(flows) ==
    LET acc[i \in 0..Len(flows)] ==
            IF i = 0 THEN <<>>
            ELSE IF CreatesCycle(acc[i - 1], flows[i].target, flows[i].source, {}).hit
                 THEN acc[i - 1]
                 ELSE Append(acc[i - 1],
                             [source |-> flows[i].source,
                              target |-> flows[i].target,
                              value |-> flows[i].value])
    IN  acc[Len(flows)]

\* a name nodeMap does not hold
NoIndex == 0 - 1

\* nodeMap[name]: the index of the last node of that name
NodeMap(nodes, name) ==
    LET at == {i \in DOMAIN nodes : nodes[i].name = name}
    IN  IF at = {} THEN NoIndex
        ELSE (CHOOSE i \in at : \A j \in at : j <= i) - 1

\* sankeyData.links
SankeyLinks(filtered, nodes) ==
    [i \in DOMAIN filtered |->
        [source |-> NodeMap(nodes, filtered[i].source),
         target |-> NodeMap(nodes, filtered[i].target),
         value |-> filtered[i].value]]

\* (mutant) the flows that close a cycle are removed from the array the
\* function was given
CreateDevicePathSankeyPruning(flows, nodes) ==
    [flows |-> FilteredFlows(flows),
     nodes |-> nodes,
     links |-> SankeyLinks(FilteredFlows(flows), nodes),
     drawn |-> TRUE]

\* createDevicePathSankey(flows, nodes), up to the call of the layout: the
\* two arrays as the function leaves them, and the links of sankeyData
CreateDevicePathSankey(flows, nodes) ==
    [flows |-> flows,
     nodes |-> nodes,
     links |-> SankeyLinks(FilteredFlows(flows), nodes),
     drawn |-> TRUE]

---------------------------------------------------------------------------
(* The device path views and the flow diagram: a second state machine *)

MaxPathRecs == 3
MaxFlows == 3

\* Row1 with other devices and impression times
PathRow(n, first, conv, firstTime) ==
    [Row1 EXCEPT !.id = n, !.firstDevice = first, !.convDevice = conv,
                 !.firstTime = firstTime]

\* a flow and its reverse, a flow from a device to itself, a missing device
\* on either side, and two pairs of labels that hold a hyphen; three of the
\* rows have no time to convert
PathRows ==
    {PathRow(11, "Mobile", "Desktop", Day(1)),
     PathRow(12, "Desktop", "Mobile", NullTime),
     PathRow(13, "Mobile", "Mobile", Day(1)),
     PathRow(14, Null, "Mobile", BadTime),
     PathRow(15, "Mobile", Null, UndefTime),
     PathRow(16, "Smart-TV", "Box", Day(1)),
     PathRow(17, "Smart", "TV-Box", Day(1))}

PathFiles == UNION {[1..n -> PathRows] : n \in 0..MaxPathRecs}

FlowLabels == {"Mobile", "Desktop", "Tablet"}

\* the flow lists createDevicePathSankey is called with directly
FlowLists ==
    UNION {[1..n -> [source : FlowLabels, target : FlowLabels, value : {1}]] :
              n \in 0..MaxFlows}

\* the nodes of a flow list, as prepareDevicePathAnalysis derives them
NodesOf(flows) ==
    LET s[i \in 0..Len(flows)] ==
            IF i = 0 THEN <<>>
            ELSE AddNew(AddNew(s[i - 1], flows[i].source), flows[i].target)
        names == s[Len(flows)]
    IN  [n \in DOMAIN names |-> [name |-> names[n]]]

\* processFile(file) on the new processor, the parse delivering data
LoadPaths(data) ==
    /\ lastOp = "new"
    /\ rawData' = data
    /\ filters' = ExtractFilters(data)
    /\ processedData' = PrepareAll(data)
    /\ returned' = PrepareAll(data)
    /\ lastOp' = "load"
    /\ loadedRaw' = data
    /\ UNCHANGED <<lastSpec, filteredData, narrowed, sankey, timeCall, panel>>

\* devicePathVisualizer.initializeVisualizations(data) with the bag the load
\* resolved with, which is this.processedData
InitializeVisualizations ==
    LET analysis == returned.devicePathAnalysis
        done == CreateDevicePathSankey(analysis.flows, analysis.nodes)
        bag == [returned EXCEPT !.devicePathAnalysis =
                   [analysis EXCEPT !.flows = done.flows, !.nodes = done.nodes]]
    IN  /\ lastOp = "load"
        /\ returned.views = {"base", "enhanced"}
        /\ ~sankey.drawn
        /\ sankey' = done
        /\ returned' = bag
        /\ processedData' = bag
        /\ UNCHANGED <<rawData, filters, lastOp, lastSpec, filteredData,
                       loadedRaw, narrowed, timeCall, panel>>

\* createDevicePathSankey(flows, nodes) called with a flow list
DrawSankey(flows) ==
    /\ lastOp = "new"
    /\ ~sankey.drawn
    /\ sankey' = CreateDevicePathSankey(flows, NodesOf(flows))
    /\ lastOp' = "draw"
    /\ UNCHANGED <<rawData, filters, processedData, lastSpec, filteredData,
                   returned, loadedRaw, narrowed, timeCall, panel>>

PathNext ==
    \/ \E data \in PathFiles : LoadPaths(data)
    \/ InitializeVisualizations
    \/ \E flows \in FlowLists : DrawSankey(flows)

PathSpec == Init /\ [][PathNext]_vars

---------------------------------------------------------------------------
(* Properties of the device path views and the flow diagram *)

\* the pairs <<a, b>> with a path of one or more edges from a to b
RECURSIVE Paths(_)
Paths(E) ==
    LET step == E \cup {<<p[1][1], p[2][2]>> :
                            p \in {q \in E \X E : q[1][2] = q[2][1]}}
    IN  IF step = E THEN E ELSE Paths(step)

\* the directed graph of a link list
LinkEdges(links) == {<<links[i].source, links[i].target>> : i \in DOMAIN links}

\* the label pairs of a flow list
FlowPairs(flows) == {<<flows[i].source, flows[i].target>> : i \in DOMAIN flows}

\* C13: the links handed to the layout hold no directed cycle and no
\* self-loop, whatever flow list the function is given and in whatever order.
C13_LinksAcyclic ==
    sankey.drawn => \A p \in Paths(LinkEdges(sankey.links)) : p[1] # p[2]

\* the function was given a flow, its reverse and a self-loop, and handed
\* exactly one link to the layout
C13_Witness ==
    /\ sankey.drawn
    /\ \E a, b \in FlowLabels :
          /\ a # b
          /\ FlowPairs(sankey.flows) = {<<a, b>>, <<b, a>>, <<a, a>>}
    /\ Len(sankey.links) = 1

\* the flow diagram was drawn from the bag a load resolved with
DrawnFromBag == lastOp = "load" /\ sankey.drawn

StatedPath(r) == DetermineDevicePath(r.firstDevice, r.convDevice)

\* C15: in the path distribution a row with a missing first-touch or
\* conversion device is counted under "Unknown", a row with both present
\* and equal under "<device> Only", any other row under the directional
\* string from its first-touch to its conversion device.
C15_PathDistribution ==
    (lastOp = "load" /\ IsViewBag(returned)) =>
        returned.devicePathAnalysis.paths =
            [p \in {StatedPath(rawData[i]) : i \in DOMAIN rawData} |->
                Cardinality({i \in DOMAIN rawData : StatedPath(rawData[i]) = p})]

\* the (first-touch device, conversion device) pair of a row, a missing
\* device standing as Unknown
DevicePair(r) == <<OrUnknown(r.firstDevice), OrUnknown(r.convDevice)>>

\* C16: the aggregated flow list holds exactly one edge per device pair that
\* some row has, whatever the labels are, its weight the number of such
\* rows, and no other edge; the node list holds each endpoint label once.
C16_OneFlowPerPair ==
    (lastOp = "load" /\ IsViewBag(returned)) =>
        LET flows == returned.devicePathAnalysis.flows
            nodes == returned.devicePathAnalysis.nodes
            pairs == {DevicePair(rawData[i]) : i \in DOMAIN rawData}
        IN  /\ \A i \in DOMAIN flows : <<flows[i].source, flows[i].target>> \in pairs
            /\ \A p \in pairs :
                  \E i \in DOMAIN flows :
                      /\ <<flows[i].source, flows[i].target>> = p
                      /\ flows[i].value =
                            Cardinality({n \in DOMAIN rawData : DevicePair(rawData[n]) = p})
                      /\ \A j \in DOMAIN flows :
                            <<flows[j].source, flows[j].target>> = p => j = i
            /\ {nodes[i].name : i \in DOMAIN nodes} = {p[1] : p \in pairs} \cup {p[2] : p \in pairs}
            /\ \A i, j \in DOMAIN nodes : nodes[i].name = nodes[j].name => i = j

\* the bucket maps of a bag whose buckets carry a conversionRate
RateBuckets(bag) ==
    <<bag.mediaPerformance.campaignPerformance,
      bag.mediaPerformance.adGroupPerformance,
      bag.channelAnalysis.devicePerformance,
      bag.channelAnalysis.environmentPerformance,
      bag.creativePerformance.creativePerformance,
      bag.creativePerformance.formatPerformance,
      bag.sitePerformance.lastImpressionSites>>

\* rate is conversions / impressions * 100, a finite number not below 0
IsRateOf(rate, conversions, impressions) ==
    /\ rate.den > 0
    /\ rate.num >= 0
    /\ IF impressions > 0
       THEN rate.num * impressions = conversions * 100 * rate.den
       ELSE rate.num = 0

\* C17: every conversionRate of every bucket is conversions / impressions *
\* 100 when the bucket's impressions are above 0 and exactly 0 when they are
\* 0; it is never negative, NaN or infinite.
C17_ConversionRateGuarded ==
    (Aggregated /\ IsViewBag(returned)) =>
        \A m \in DOMAIN RateBuckets(returned) :
            \A k \in DOMAIN RateBuckets(returned)[m] :
                LET bucket == RateBuckets(returned)[m][k]
                IN  IsRateOf(bucket.conversionRate, bucket.conversions,
                             bucket.impressions)

\* a bag with a campaign of conversions and no impressions, its rate 0, next
\* to a campaign whose rate is 10
C17_Witness ==
    /\ Aggregated
    /\ IsViewBag(returned)
    /\ \E j, k \in DOMAIN returned.mediaPerformance.campaignPerformance :
          LET zero == returned.mediaPerformance.campaignPerformance[j]
              some == returned.mediaPerformance.campaignPerformance[k]
          IN  /\ zero.conversions > 0
              /\ zero.impressions = 0
              /\ zero.conversionRate = Zero
              /\ some.impressions = 10
              /\ some.conversionRate = [num |-> 10, den |-> 1]

---------------------------------------------------------------------------
(* calculateTimeToConvert on its own: a third state machine *)

MaxDays == 3

\* the timestamps the function is called with: an empty cell, an absent
\* column, text Date cannot parse, and instants at three offsets into each
\* of the days 1..MaxDays
Times ==
    {NullTime, UndefTime, BadTime}
        \cup {Day(d) + o : d \in 1..MaxDays, o \in {0, 200, 3556}}

\* calculateTimeToConvert(first, last)
TimeToConvertCall(first, last) ==
    /\ timeCall' = [first |-> first, last |-> last,
                    result |-> CalculateTimeToConvert(first, last),
                    done |-> TRUE]
    /\ UNCHANGED <<rawData, filters, processedData, lastOp, lastSpec,
                   filteredData, returned, loadedRaw, narrowed, sankey, panel>>

TimeNext == \E first, last \in Times : TimeToConvertCall(first, last)

TimeSpec == Init /\ [][TimeNext]_vars

\* the timestamp is an instant
IsInstant(t) == t >= 0

\* |a - b|
Distance(a, b) == IF a >= b THEN a - b ELSE b - a

\* C18: calculateTimeToConvert returns null when either timestamp is missing
\* or cannot be parsed; otherwise it returns the absolute difference in
\* days (to the nearest hundredth), which is 0 for equal timestamps and the
\* same for (t1, t2) and (t2, t1).
C18_TimeToConvertAbsolute ==
    timeCall.done =>
        IF ~IsInstant(timeCall.first) \/ ~IsInstant(timeCall.last)
        THEN timeCall.result = NoTime
        ELSE LET hundredths == 100 * Distance(timeCall.first, timeCall.last)
             IN  /\ timeCall.result # NoTime
                 /\ timeCall.result >= 0
                 /\ 2 * Distance(timeCall.result * SecondsPerDay, hundredths)
                       <= SecondsPerDay
                 /\ timeCall.first = timeCall.last => timeCall.result = 0
                 /\ timeCall.result =
                       CalculateTimeToConvert(timeCall.last, timeCall.first)

\* a call whose first timestamp is the later one, more than a day apart
C18_Witness ==
    /\ timeCall.done
    /\ IsInstant(timeCall.last)
    /\ timeCall.first > timeCall.last + SecondsPerDay
    /\ timeCall.result > 100

---------------------------------------------------------------------------
(* Properties of the time-to-convert statistics *)

\* the rows the last aggregation ran on
AggregatedRows == IF lastOp = "apply" THEN filteredData ELSE rawData

\* the rows whose two impression times are instants
WithTime(data) ==
    SelectSeq(data, LAMBDA r : IsInstant(r.firstTime) /\ IsInstant(r.lastTime))

\* the sum of the counts of a bucket map
RECURSIVE Total(_)
Total(counts) ==
    IF DOMAIN counts = {} THEN 0
    ELSE LET k == CHOOSE x \in DOMAIN counts : TRUE
         IN  counts[k] + Total([j \in DOMAIN counts \ {k} |-> counts[j]])

\* C19: a row whose time to convert is null contributes to no
\* time-to-convert statistic (the time-to-convert view and the per-path
\* times are those of the rows with a time alone), and is still counted in
\* the summary total, the breakdowns, the path distribution and the table.
C19_NullTimeExcludedFromTimeStatsOnly ==
    (Aggregated /\ IsViewBag(returned)) =>
        LET data == AggregatedRows
            timed == WithTime(data)
        IN  /\ returned.timeToConvert = PrepareTimeToConvertAnalysis(timed)
            /\ returned.timeToConvert.stats.totalConversions = Len(timed)
            /\ Total(returned.timeToConvert.distribution) = Len(timed)
            /\ returned.devicePathAnalysis.timeToConvert =
                  PrepareDevicePathAnalysis(timed).timeToConvert
            /\ returned.summary.totalConversions = Len(data)
            /\ Len(returned.tableData) = Len(data)
            /\ Total(returned.devicePathAnalysis.paths) = Len(data)
            /\ \A d \in DOMAIN returned.conversionAnalysis.conversionsByDevice :
                  returned.conversionAnalysis.conversionsByDevice[d] =
                     Cardinality({i \in DOMAIN data : data[i].convDevice = d})
            /\ \A i \in DOMAIN data :
                  /\ returned.tableData[i].conversionId = data[i].id
                  /\ data[i].convDevice # Null =>
                        data[i].convDevice \in
                           DOMAIN returned.conversionAnalysis.conversionsByDevice

\* a bag of a row with a time to convert and a row without one
C19_Witness ==
    /\ Aggregated
    /\ IsViewBag(returned)
    /\ Len(AggregatedRows) = 2
    /\ Len(WithTime(AggregatedRows)) = 1
    /\ returned.timeToConvert.stats.totalConversions = 1
    /\ returned.summary.totalConversions = 2
    /\ Total(returned.devicePathAnalysis.paths) = 2

---------------------------------------------------------------------------
(* Properties of getFilters *)

\* the columns whose values each list of getFilters() offers
FilterableColumns ==
    [conversionTypes |-> {"tag"},
     campaigns |-> {"lastCampaign", "firstCampaign"},
     adGroups |-> {"lastAdGroup", "firstAdGroup"},
     creatives |-> {"lastCreative", "firstCreative"},
     deviceTypes |-> {"convDevice", "lastDevice"},
     countries |-> {"country"},
     regions |-> {"region"},
     metros |-> {"metro"},
     adEnvironments |-> {"adEnv"},
     attributionModels |-> {"attrModel"},
     lastImpressionSites |-> {"site"}]

\* the place of a text in the order of Array.prototype.sort
Position(s) == CHOOSE i \in DOMAIN SortOrder : SortOrder[i] = s

\* a list of distinct non-empty values in sorted order
SortedDistinct(list) ==
    /\ \A i \in DOMAIN list : list[i] # Null
    /\ \A i, j \in DOMAIN list : i < j => Position(list[i]) < Position(list[j])

\* the lists are those of the values observed in the rows data
ListsOf(lists, data) ==
    /\ DOMAIN lists = DOMAIN FilterableColumns
    /\ \A f \in DOMAIN lists :
          /\ SortedDistinct(lists[f])
          /\ \A v \in {lists[f][i] : i \in DOMAIN lists[f]} :
                \E n \in DOMAIN data : \E c \in FilterableColumns[f] :
                    data[n][c] = v
          /\ \A n \in DOMAIN data : \A c \in FilterableColumns[f] :
                data[n][c] # Null =>
                    \E i \in DOMAIN lists[f] : lists[f][i] = data[n][c]

\* C20: once a file has been parsed, getFilters() gives for each filterable
\* field the distinct non-empty values of the held raw set in sorted order,
\* and no applyFilters call changes it.
C20_GetFiltersOfRawSetUnchangedByApply ==
    [][/\ filters' # NoFilters => ListsOf(filters', rawData')
       /\ lastOp' = "apply" => filters' = filters]_vars

\* a second filter application in a row, which kept one row of two, and a
\* list that still offers the value of the row filtered out
C20_Witness ==
    /\ Applied
    /\ narrowed
    /\ Len(rawData) = 2
    /\ Len(filteredData) = 1
    /\ filteredData[1].tag = "Purchase"
    /\ filters.conversionTypes = <<"Purchase", "Signup">>

---------------------------------------------------------------------------
(* Properties of the conversion analysis *)

\* C21: the counts of conversionsByType add up to the number of rows with
\* a non-empty conversion type, and no bucket is keyed by an empty value or
\* by the label Unknown, which no row of the model carries.
C21_ByTypeCountsTypedRows ==
    (Aggregated /\ IsViewBag(returned)) =>
        LET data == AggregatedRows
            byType == returned.conversionAnalysis.conversionsByType
        IN  /\ Total(byType) = Cardinality({i \in DOMAIN data : data[i].tag # Null})
            /\ Null \notin DOMAIN byType
            /\ "Unknown" \notin DOMAIN byType
            /\ \A k \in DOMAIN byType :
                  byType[k] = Cardinality({i \in DOMAIN data : data[i].tag = k})

\* a bag of a row with a conversion type and a row without one
C21_Witness ==
    /\ Aggregated
    /\ IsViewBag(returned)
    /\ Len(AggregatedRows) = 2
    /\ Cardinality({i \in DOMAIN AggregatedRows : AggregatedRows[i].tag = Null}) = 1
    /\ Total(returned.conversionAnalysis.conversionsByType) = 1

---------------------------------------------------------------------------
(* Properties of the export *)

\* ExportManager.exportData: the rows handed to exportToCsv
ExportData == processedData.tableData

\* C22: after a filter application the export gives the table rows of the
\* bag that application returned, the one the charts display.
C22_ExportIsDisplayedTable ==
    (Applied /\ IsViewBag(returned) /\ IsViewBag(processedData)) =>
        ExportData = returned.tableData

---------------------------------------------------------------------------
(* The filter panel: UnifiedFilterManager and the charts of the page *)

(* pendingFilters and activeFilters are filter specifications: the entries  *)
(* of the object in insertion order.  The value of an empty date input, '', *)
(* and an absent bound are both falsy and both written NoBound.             *)

\* the place of a key in a specification, 0 when it has none
KeyIndex(spec, key) ==
    IF \E i \in DOMAIN spec : spec[i].key = key
    THEN CHOOSE i \in DOMAIN spec : spec[i].key = key
    ELSE 0

\* object[key] = value: a key the object has keeps its place
SetField(spec, entry) ==
    IF KeyIndex(spec, entry.key) = 0 THEN Append(spec, entry)
    ELSE [spec EXCEPT ![KeyIndex(spec, entry.key)] = entry]

\* delete object[key]
DeleteField(spec, key) == SelectSeq(spec, LAMBDA e : e.key # key)

\* (mutant) an empty selection is stored like any other
UpdatePendingSelectKeepingEmpty(pending, id, selected) ==
    SetField(pending, SetEntry(id, selected))

\* updatePendingFilters(id, element) for a multi-select: selected is
\* Array.from(element.selectedOptions).map(option => option.value)
UpdatePendingSelect(pending, id, selected) ==
    IF Len(selected) > 0 THEN SetField(pending, SetEntry(id, selected))
    ELSE DeleteField(pending, id)

\* a dateRange entry after dateRange.start = value or dateRange.end = value
WithBound(entry, id, value) ==
    IF id = "dateStart" THEN [entry EXCEPT !.start = value]
    ELSE [entry EXCEPT !.end = value]

\* updatePendingFilters(id, element) for a date input: a missing dateRange
\* is created, an existing one is written in place
UpdatePendingDate(pending, id, value) ==
    LET i == KeyIndex(pending, "dateRange")
    IN  IF i = 0
        THEN Append(pending, WithBound(DateEntry(NoBound, NoBound), id, value))
        ELSE [pending EXCEPT ![i] = WithBound(pending[i], id, value)]

\* what an assignment through pendingFilters.dateRange does to activeFilters
\* when the two hold the same dateRange object
ActiveAfterDate(active, shared, id, value) ==
    LET i == KeyIndex(active, "dateRange")
    IN  IF shared /\ i # 0
        THEN [active EXCEPT ![i] = WithBound(active[i], id, value)]
        ELSE active

\* a chart group created from d, and one that chart.destroy() was called on
Shown(d) == [state |-> "shown", data |-> d]
Destroyed(chart) == [state |-> "destroyed", data |-> chart.data]

\* what ChartVisualizer.initializeCharts reads of a bag
BaseViews(bag) ==
    [summary |-> bag.summary,
     conversionAnalysis |-> bag.conversionAnalysis,
     mediaPerformance |-> bag.mediaPerformance,
     channelAnalysis |-> bag.channelAnalysis,
     creativePerformance |-> bag.creativePerformance,
     geoInsights |-> bag.geoInsights,
     frequencyAnalysis |-> bag.frequencyAnalysis,
     tableData |-> bag.tableData]

\* the then-callback of handleFileUpload: every group is created
InitializeAll(bag) ==
    [base |-> Shown(BaseViews(bag)),
     timeToConvert |-> Shown(bag.timeToConvert),
     devicePath |-> Shown(bag.devicePathAnalysis),
     sitePerformance |-> Shown(bag.sitePerformance)]

\* chartVisualizer.updateCharts(bag) and the two updateVisualizations(bag):
\* every chart of chartVisualizer.charts is destroyed, the site performance
\* chart among them, and initializeCharts creates the base charts again
UpdateAll(held, bag) ==
    [base |-> Shown(BaseViews(bag)),
     timeToConvert |-> Shown(bag.timeToConvert),
     devicePath |-> Shown(bag.devicePathAnalysis),
     sitePerformance |-> IF held.sitePerformance.state = "none"
                         THEN held.sitePerformance
                         ELSE Destroyed(held.sitePerformance)]

\* the controls of the panel the model operates, and the dates it enters
PanelIds == {"conversionType", "country"}
PanelDates == {NoBound, Day(2)}

\* the files the model uploads to the page: Row1, repeated, then a row that
\* differs in its type, one that differs in its country, or one on which
\* the aggregation raises
PanelFiles ==
    {data \in Files : /\ Len(data) = MaxRecs
                      /\ \A i \in 1..(MaxRecs - 1) : data[i] = Row1
                      /\ data[MaxRecs] \in {Row2, Row3, Row5}}

\* the selections a multi-select offers: its options in document order
Selections(options) ==
    {SelectSeq(options, LAMBDA v : v \in {options[i] : i \in S}) :
        S \in SUBSET DOMAIN options}

\* the panel is built and the loading overlay hidden: the upload resolved
PanelReady == charts.base.state = "shown"

\* handleFileUpload: the first upload of the page.  When the aggregation
\* raises the promise stays pending and the loading overlay stays up.
HandleFileUpload(data) ==
    LET done == ProcessFileComplete(data, processedData)
    IN  /\ lastOp = "new"
        /\ rawData' = done.rawData
        /\ filters' = done.filters
        /\ processedData' = done.processedData
        /\ returned' = done.result
        /\ lastOp' = "load"
        /\ loadedRaw' = data
        /\ charts' = IF done.result = Thrown THEN charts
                     ELSE InitializeAll(done.result)
        /\ UNCHANGED <<lastSpec, filteredData, narrowed, sankey, timeCall,
                       pendingFilters, activeFilters, sharedDateRange>>

\* the change event of a multi-select, its Select All and its Clear button
ChangeSelect(id, selected) ==
    /\ PanelReady
    /\ pendingFilters' = UpdatePendingSelect(pendingFilters, id, selected)
    /\ lastOp' = "change"
    /\ UNCHANGED <<rawData, filters, processedData, lastSpec, filteredData,
                   returned, loadedRaw, narrowed, sankey, timeCall,
                   activeFilters, sharedDateRange, charts>>

\* the change event of a date input
ChangeDate(id, value) ==
    /\ PanelReady
    /\ pendingFilters' = UpdatePendingDate(pendingFilters, id, value)
    /\ activeFilters' = ActiveAfterDate(activeFilters, sharedDateRange, id, value)
    /\ sharedDateRange' =
          (sharedDateRange /\ KeyIndex(pendingFilters, "dateRange") # 0)
    /\ lastOp' = "change"
    /\ UNCHANGED <<rawData, filters, processedData, lastSpec, filteredData,
                   returned, loadedRaw, narrowed, sankey, timeCall, charts>>

\* UnifiedFilterManager.applyFilters: the click on Apply Filters
ManagerApplyFilters ==
    LET done == UnifiedApplyFilters(rawData, pendingFilters)
    IN  /\ PanelReady
        /\ activeFilters' = pendingFilters
        /\ sharedDateRange' = (KeyIndex(pendingFilters, "dateRange") # 0)
        /\ rawData' = done.rawData
        /\ filteredData' = done.filteredData
        /\ returned' = done.result
        /\ lastOp' = "apply"
        /\ lastSpec' = pendingFilters
        /\ narrowed' = (narrowed \/ Len(filteredData) < Len(rawData))
        /\ charts' = IF done.result = Thrown THEN charts
                     ELSE UpdateAll(charts, done.result)
        /\ UNCHANGED <<filters, processedData, loadedRaw, sankey, timeCall,
                       pendingFilters>>

\* (mutant) the reset clears the pending selections only
ResetFiltersKeepingActive ==
    /\ PanelReady
    /\ ~Throws(rawData)
    /\ pendingFilters' = <<>>
    /\ processedData' = PrepareAll(rawData)
    /\ returned' = processedData'
    /\ charts' = UpdateAll(charts, processedData')
    /\ lastOp' = "reset"
    /\ lastSpec' = <<>>
    /\ filteredData' = rawData
    /\ UNCHANGED <<rawData, filters, loadedRaw, narrowed, sankey, timeCall,
                   activeFilters, sharedDateRange>>

\* UnifiedFilterManager.resetFilters: the click on Reset Filters
ResetFilters ==
    /\ PanelReady
    /\ ~Throws(rawData)
    /\ pendingFilters' = <<>>
    /\ activeFilters' = <<>>
    /\ sharedDateRange' = FALSE
    /\ processedData' = PrepareAll(rawData)
    /\ returned' = processedData'
    /\ charts' = UpdateAll(charts, processedData')
    /\ lastOp' = "reset"
    /\ lastSpec' = <<>>
    /\ filteredData' = rawData
    /\ UNCHANGED <<rawData, filters, loadedRaw, narrowed, sankey, timeCall>>

PanelNext ==
    \/ \E data \in PanelFiles : HandleFileUpload(data)
    \/ \E id \in PanelIds :
          \E selected \in (IF PanelReady
                            THEN Selections(filters[FilterList(id)])
                            ELSE {}) :
             ChangeSelect(id, selected)
    \/ \E id \in {"dateStart", "dateEnd"} : \E value \in PanelDates :
          ChangeDate(id, value)
    \/ ManagerApplyFilters
    \/ ResetFilters

PanelSpec == Init /\ [][PanelNext]_vars

---------------------------------------------------------------------------
(* Properties of the filter panel *)

\* the last operation was a click on Apply Filters or Reset Filters that
\* computed a bag
Refreshed == lastOp \in {"apply", "reset"} /\ IsViewBag(returned)

\* C23: after every Apply Filters and every Reset Filters each chart group
\* shown after the load exists and shows the data of the bag that operation
\* computed.
C23_ChartsShowComputedBag ==
    Refreshed =>
        /\ charts.base = Shown(BaseViews(returned))
        /\ charts.timeToConvert = Shown(returned.timeToConvert)
        /\ charts.devicePath = Shown(returned.devicePathAnalysis)
        /\ charts.sitePerformance = Shown(returned.sitePerformance)

---------------------------------------------------------------------------
(* DataProcessor.applyFilters and EnhancedDataProcessor.applyFilters *)

\* DataProcessor.prepareTableData
BasePrepareTableData(data) ==
    [i \in DOMAIN data |->
        [conversionId |-> data[i].id,
         conversionTime |-> data[i].convTime,
         conversionType |-> data[i].tag,
         deviceType |-> data[i].convDevice,
         campaign |-> data[i].lastCampaign,
         adGroup |-> data[i].lastAdGroup,
         creative |-> data[i].lastCreative,
         impressions |-> data[i].imps,
         clicks |-> data[i].clicks,
         monetaryValue |-> data[i].value,
         country |-> data[i].country,
         region |-> data[i].region,
         metro |-> data[i].metro]]

\* prepareDatasets() on a DataProcessor whose rawData is data
PrepareDatasets(data) ==
    [views |-> {"base"},
     summary |-> PrepareSummaryMetrics(data),
     conversionAnalysis |-> PrepareConversionAnalysis(data),
     mediaPerformance |-> PrepareMediaPerformance(data),
     channelAnalysis |-> PrepareChannelAnalysis(data),
     creativePerformance |-> PrepareCreativePerformance(data),
     geoInsights |-> PrepareGeoInsights(data),
     frequencyAnalysis |-> PrepareFrequencyAnalysis(data),
     tableData |-> BasePrepareTableData(data)]

\* the keys DataProcessor.applyFilters reads, in the order of its tests
LegacyKeys ==
    <<"conversionType", "campaign", "adGroup", "creative", "deviceType",
      "country", "region", "metro", "adEnvironment">>

\* row[column] === filters.key, once per column of the key: an array is
\* identical to no cell
LegacyKeeps(entry, row) ==
    LET cols == FilterColumns(entry.key)
    IN  /\ entry.kind = "scalar"
        /\ \E i \in DOMAIN cols : row[cols[i]] = entry.vals[1]

\* the tests if (filters.key) { ... } from the n-th on
RECURSIVE LegacyStages(_, _, _)
LegacyStages(data, spec, n) ==
    IF n > Len(LegacyKeys) THEN data
    ELSE LET i == KeyIndex(spec, LegacyKeys[n])
             kept == IF i = 0 THEN data
                     ELSE SelectSeq(data, LAMBDA row : LegacyKeeps(spec[i], row))
         IN  LegacyStages(kept, spec, n + 1)

\* if (filters.dateRange && filters.dateRange.start && filters.dateRange.end)
LegacyDateStage(data, spec) ==
    LET i == KeyIndex(spec, "dateRange")
    IN  IF i # 0 /\ spec[i].start # NoBound /\ spec[i].end # NoBound
        THEN SelectSeq(data, LAMBDA row :
                /\ DateGE(ToDate(row.convTime), spec[i].start)
                /\ DateLE(ToDate(row.convTime), spec[i].end))
        ELSE data

\* filteredData as lines 151-210 of DataProcessor.applyFilters leave it
LegacyFilterRows(data, spec) == LegacyDateStage(LegacyStages(data, spec, 1), spec)

\* DataProcessor.applyFilters(filters) on a processor holding raw: the rows
\* it gives tempProcessor and what it returns, tempProcessor.processedData,
\* which is an object and no array
DataApplyFilters(raw, spec) ==
    LET filtered == LegacyFilterRows(raw, spec)
    IN  [filteredData |-> filtered,
         isArray |-> FALSE,
         result |-> IF Throws(filtered) THEN Thrown ELSE PrepareDatasets(filtered)]

\* the value of a scalar key of a specification, Null when it has none
ScalarOf(spec, key) ==
    IF KeyIndex(spec, key) = 0 THEN Null ELSE spec[KeyIndex(spec, key)].vals[1]

\* EnhancedDataProcessor.applyFilters(filters): filteredData is what
\* super.applyFilters returned.  filteredData.filter(...) and, through
\* tempProcessor.prepareDatasets(), this.rawData.forEach(...) are calls of
\* Array methods: on an object they raise a TypeError.
EnhancedApplyFilters(raw, spec) ==
    LET super == DataApplyFilters(raw, spec)
        model == ScalarOf(spec, "attributionModel")
        site == ScalarOf(spec, "lastImpressionSite")
        byModel == IF model = Null THEN super.filteredData
                   ELSE SelectSeq(super.filteredData,
                                  LAMBDA row : row.attrModel = model)
        bySite == IF site = Null THEN byModel
                  ELSE SelectSeq(byModel, LAMBDA row : row.site = site)
    IN  IF super.result = Thrown \/ ~super.isArray
        THEN [filteredData |-> super.filteredData, result |-> Thrown]
        ELSE [filteredData |-> bySite,
              result |-> IF Throws(bySite) THEN Thrown ELSE PrepareAll(bySite)]

\* the legacy-mode specifications the model calls the two methods with:
\* scalar values, with a whole window, a single bound or no window
LegacySpecs ==
    ScalarSpecs \cup DateSpecs \cup
    {<<>>,
     <<ScalarEntry("country", "US"), DateEntry(Day(2), NoBound)>>,
     <<ScalarEntry("country", "US"), DateEntry(Day(1), Day(2))>>,
     <<ScalarEntry("region", "CA"), ScalarEntry("conversionType", "Purchase")>>,
     <<ScalarEntry("metro", "SF")>>,
     <<ScalarEntry("adEnvironment", "App")>>,
     <<ScalarEntry("lastImpressionSite", "S1")>>,
     <<ScalarEntry("lastImpressionSite", "S2"), ScalarEntry("campaign", "C1")>>}

\* processFile(file) on a new EnhancedDataProcessor
EnhancedProcessFile(data) ==
    LET done == ProcessFileComplete(data, processedData)
    IN  /\ lastOp = "new"
        /\ rawData' = done.rawData
        /\ filters' = done.filters
        /\ processedData' = done.processedData
        /\ returned' = done.result
        /\ lastOp' = "load"
        /\ loadedRaw' = data
        /\ UNCHANGED <<lastSpec, filteredData, narrowed, sankey, timeCall, panel>>

\* DataProcessor.applyFilters(spec), the method the subclass inherits
BaseApplyFilters(spec) ==
    LET done == DataApplyFilters(rawData, spec)
    IN  /\ filters # NoFilters
        /\ filteredData' = done.filteredData
        /\ returned' = done.result
        /\ lastOp' = "baseApply"
        /\ lastSpec' = spec
        /\ UNCHANGED <<rawData, filters, processedData, loadedRaw, narrowed,
                       sankey, timeCall, panel>>

\* EnhancedDataProcessor.applyFilters(spec)
EnhancedApply(spec) ==
    LET done == EnhancedApplyFilters(rawData, spec)
    IN  /\ filters # NoFilters
        /\ filteredData' = done.filteredData
        /\ returned' = done.result
        /\ lastOp' = "enhancedApply"
        /\ lastSpec' = spec
        /\ UNCHANGED <<rawData, filters, processedData, loadedRaw, narrowed,
                       sankey, timeCall, panel>>

LegacyNext ==
    \/ \E data \in Files : EnhancedProcessFile(data)
    \/ \E spec \in LegacySpecs : BaseApplyFilters(spec)
    \/ \E spec \in LegacySpecs : EnhancedApply(spec)

LegacySpec == Init /\ [][LegacyNext]_vars

\* the row passes the base-class tests of a legacy-mode specification and
\* its attributionModel and lastImpressionSite values
PassesEnhanced(row, spec) ==
    /\ \A i \in DOMAIN spec :
          IF spec[i].kind = "date"
          THEN (spec[i].start # NoBound /\ spec[i].end # NoBound) =>
                  /\ DateGE(ToDate(row.convTime), spec[i].start)
                  /\ DateLE(ToDate(row.convTime), spec[i].end)
          ELSE \E c \in {FilterColumns(spec[i].key)[n] :
                            n \in DOMAIN FilterColumns(spec[i].key)} :
                  row[c] = spec[i].vals[1]

\* C24: EnhancedDataProcessor.applyFilters returns, without raising, the
\* base and enhanced views of the held rows that pass the filters.
C24_EnhancedApplyReturnsViews ==
    lastOp = "enhancedApply" =>
        LET passing == SelectSeq(rawData, LAMBDA r : PassesEnhanced(r, lastSpec))
        IN  ~Throws(passing) => returned = PrepareAll(passing)


\* every value of the specification is a scalar and every key is one both
\* methods read
LegacyMode(spec) ==
    \A i \in DOMAIN spec :
        /\ spec[i].kind \in {"scalar", "date"}
        /\ spec[i].key \in {LegacyKeys[n] : n \in DOMAIN LegacyKeys} \cup {"dateRange"}

\* C30: for a legacy-mode specification, one with a single date bound
\* included, DataProcessor.applyFilters selects the rows
\* UnifiedDataProcessor.applyFilters selects.
C30_LegacySelectsAsUnified ==
    (lastOp = "baseApply" /\ LegacyMode(lastSpec)) =>
        filteredData = FilterRows(rawData, lastSpec)


\* C25: a click on Reset Filters leaves pendingFilters and activeFilters
\* empty and the held bag equal to the aggregation of the whole held raw
\* set, and a click on Apply Filters right after it returns that same bag.
C25_ResetRestoresUnfiltered ==
    [][/\ lastOp' = "reset" =>
            /\ pendingFilters' = <<>>
            /\ activeFilters' = <<>>
            /\ rawData' = rawData
            /\ IsViewBag(processedData')
            /\ processedData' = LoadOf(rawData')
            /\ processedData'.summary.totalConversions = Len(rawData')
       /\ (lastOp = "reset" /\ lastOp' = "apply") =>
            /\ returned' = processedData
            /\ returned' = LoadOf(rawData')
            /\ activeFilters' = <<>>]_vars

\* a reset after an application that dropped a row
C25_Witness ==
    /\ lastOp = "reset"
    /\ narrowed
    /\ pendingFilters = <<>>
    /\ activeFilters = <<>>
    /\ Len(rawData) = Len(loadedRaw)
    /\ processedData.summary.totalConversions = Len(rawData)


\* C27: between two clicks on Apply or Reset a change of a filter control
\* changes pendingFilters only: getActiveFilters() stays the specification
\* that was last applied, its dateRange included.
C27_ActiveIsLastApplied ==
    PanelReady => activeFilters = lastSpec


\* a field that constrains nothing by choice: an empty array or an empty
\* scalar
EmptyField(entry) ==
    \/ entry.kind = "set" /\ entry.vals = <<>>
    \/ entry.kind = "scalar" /\ entry.vals[1] = Null

\* C28: no field of pendingFilters or of activeFilters holds an empty array
\* or an empty scalar (a multi-select with nothing selected has no field),
\* each field is held once, and the specification an Apply passed to the
\* data processor had no such field either.
C28_NoEmptyField ==
    /\ \A i \in DOMAIN pendingFilters : ~EmptyField(pendingFilters[i])
    /\ \A i \in DOMAIN activeFilters : ~EmptyField(activeFilters[i])
    /\ \A i \in DOMAIN lastSpec : ~EmptyField(lastSpec[i])
    /\ \A i, j \in DOMAIN pendingFilters :
          pendingFilters[i].key = pendingFilters[j].key => i = j
    /\ (lastOp = "apply" /\ \A i \in DOMAIN lastSpec : lastSpec[i].kind = "date"
           /\ lastSpec[i].start = NoBound /\ lastSpec[i].end = NoBound) =>
          filteredData = rawData

\* every option of a field was selected, applied, and then deselected
C28_Witness ==
    /\ lastOp = "change"
    /\ KeyIndex(activeFilters, "conversionType") # 0
    /\ KeyIndex(pendingFilters, "conversionType") = 0
    /\ KeyIndex(pendingFilters, "country") # 0

---------------------------------------------------------------------------
(* Properties of the cycle elimination *)

\* the flow closes no cycle with the accepted flows: it is no self-loop and
\* its target does not reach its source through them
ClosesNoCycle(accepted, flow) ==
    /\ flow.source # flow.target
    /\ <<flow.target, flow.source>> \notin Paths(FlowPairs(accepted))

\* the flows accepted when the list is taken in order
AcceptedInOrder(flows) ==
    LET acc[i \in 0..Len(flows)] ==
            IF i = 0 THEN <<>>
            ELSE IF ClosesNoCycle(acc[i - 1], flows[i])
                 THEN Append(acc[i - 1], flows[i])
                 ELSE acc[i - 1]
    IN  acc[Len(flows)]

\* C26: the flow list is processed in input order and a flow (s, t) is
\* accepted if and only if s # t and t does not reach s through the flows
\* accepted before it; the links are the accepted flows, in order.
C26_AcceptedIffNoCycle ==
    sankey.drawn =>
        LET accepted == AcceptedInOrder(sankey.flows)
        IN  sankey.links =
               [i \in DOMAIN accepted |->
                   [source |-> NodeMap(sankey.nodes, accepted[i].source),
                    target |-> NodeMap(sankey.nodes, accepted[i].target),
                    value |-> accepted[i].value]]

\* a flow, its reverse, which is rejected, and the first flow again, which
\* is accepted: it closes a cycle with the rejected flow only
C26_Witness ==
    /\ sankey.drawn
    /\ Len(sankey.flows) = 3
    /\ sankey.flows[1].source # sankey.flows[1].target
    /\ sankey.flows[2].source = sankey.flows[1].target
    /\ sankey.flows[2].target = sankey.flows[1].source
    /\ sankey.flows[3] = sankey.flows[1]
    /\ Len(sankey.links) = 2

---------------------------------------------------------------------------
(* Properties of the time-to-convert views *)

\* the times to convert, in hundredths of a day, of each distribution
\* bucket: above lo, up to hi
BucketBounds ==
    [b \in TimeBuckets |->
        CASE b = "0-1" -> [lo |-> 0 - 1, hi |-> 100]
          [] b = "1-3" -> [lo |-> 100, hi |-> 300]
          [] b = "3-7" -> [lo |-> 300, hi |-> 700]
          [] b = "7-14" -> [lo |-> 700, hi |-> 1400]
          [] b = "14-30" -> [lo |-> 1400, hi |-> 3000]
          [] b = "30+" -> [lo |-> 3000, hi |-> 0 - 1]]

InBucket(t, b) ==
    /\ t > BucketBounds[b].lo
    /\ BucketBounds[b].hi >= 0 => t <= BucketBounds[b].hi

\* the sum of the count field of the groups of a view
GroupTotal(groups) == Total([k \in DOMAIN groups |-> groups[k].count])

\* the groups of a view count the valid rows by the named column
GroupsCount(groups, valid, col) ==
    /\ GroupTotal(groups) = Len(valid)
    /\ \A i \in DOMAIN valid : OrUnknown(valid[i][col]) \in DOMAIN groups
    /\ \A k \in DOMAIN groups :
          /\ groups[k].count =
                Cardinality({i \in DOMAIN valid : OrUnknown(valid[i][col]) = k})
          /\ groups[k].conversions = groups[k].count

\* C29: the time-to-convert views of a bag agree: stats.totalConversions is
\* the sum of the six distribution buckets, the sum of the conversions of
\* timeVsConversionPct and the sum of the group counts of byDevice, of
\* byAdFormat and of byChannel; every valid row is in exactly one bucket and
\* one group of each view; timeVsConversionPct is strictly ascending by day.
C29_TimeViewsAgree ==
    (Aggregated /\ IsViewBag(returned)) =>
        LET t == returned.timeToConvert
            valid == WithTime(AggregatedRows)
            pct == t.timeVsConversionPct
        IN  /\ t.stats.totalConversions = Len(valid)
            /\ DOMAIN t.distribution = TimeBuckets
            /\ Total(t.distribution) = t.stats.totalConversions
            /\ Total([n \in DOMAIN pct |-> pct[n].conversions]) =
                  t.stats.totalConversions
            /\ GroupsCount(t.byDevice, valid, "lastDevice")
            /\ GroupsCount(t.byAdFormat, valid, "adFormat")
            /\ GroupsCount(t.byChannel, valid, "adEnv")
            /\ \A i \in DOMAIN valid :
                  Cardinality({b \in TimeBuckets : InBucket(RowTime(valid[i]), b)}) = 1
            /\ \A b \in TimeBuckets :
                  t.distribution[b] =
                     Cardinality({i \in DOMAIN valid : InBucket(RowTime(valid[i]), b)})
            /\ \A m, n \in DOMAIN pct : m < n => pct[m].day < pct[n].day

\* a bag of two valid rows in two buckets, two days and two groups
C29_Witness ==
    /\ Aggregated
    /\ IsViewBag(returned)
    /\ returned.timeToConvert.stats.totalConversions = 2
    /\ returned.timeToConvert.distribution["0-1"] = 1
    /\ returned.timeToConvert.distribution["1-3"] = 1
    /\ Len(returned.timeToConvert.timeVsConversionPct) = 2
    /\ Cardinality(DOMAIN returned.timeToConvert.byDevice) = 2

===========================================================================
